---- MODULE Spec2Model ----
(***************************************************************************)
(* Condition evaluation of pkg/structure: Conditions.Check and the checks  *)
(* of the Env, Files, Dirs and Permissions conditions, over an image given *)
(* by its config env list, its layers and its tar-backed filesystem view.  *)
(* The variable panic holds the value of a run-time panic of the process   *)
(* (empty while it runs); after a panic no step is taken.  The variable io *)
(* counts the layer streams opened and closed and the scratch files        *)
(* created and removed since Conditions.Check was entered.                 *)
(*                                                                         *)
(* The provider's resources and data sources are modelled over a registry  *)
(* (the tags and manifests of one repository): the handlers of oci_tag and *)
(* oci_tags, with the tasks of doTag's errgroup, the Read of the structure *)
(* test data source, and freePort and discardPort of the exec test.        *)
(*                                                                         *)
(* Strings are sequences of symbols, so that Cut, TrimPrefix and Split     *)
(* are computed; file modes are sets of bit positions of an os.FileMode,   *)
(* so that "&" is set intersection.  An error value is the sequence of the *)
(* messages it joins, and the nil error is the empty sequence.             *)
(***************************************************************************)
EXTENDS Integers, Sequences, FiniteSets, TLC

VARIABLES fsys, env, fault, tarStreams, conds, idx, errs, results, panic, io,
          registry, data, state, errg, resp, ports

structureVars == <<fsys, env, fault, tarStreams, conds, idx, errs, results, panic, io>>

providerVars == <<registry, data, state, errg, resp, ports>>

vars == <<structureVars, providerVars>>

\* the provider is not involved while pkg/structure alone runs
ProviderIdle ==
    /\ registry = <<>>
    /\ data = <<>>
    /\ state = <<>>
    /\ errg = <<>>
    /\ resp = <<>>
    /\ ports = <<>>

----------------------------------------------------------------------------
(* Bounds *)

MaxConds == 2
MaxEnv == 2
MaxRuns == 2
MaxTar == 2

----------------------------------------------------------------------------
(* Strings *)

Min(a, b) == IF a < b THEN a ELSE b

HasPrefix(s, prefix) ==
    /\ Len(prefix) <= Len(s)
    /\ SubSeq(s, 1, Len(prefix)) = prefix

TrimPrefix(s, prefix) ==
    IF HasPrefix(s, prefix) THEN SubSeq(s, Len(prefix) + 1, Len(s)) ELSE s

\* position of the first occurrence of the one-symbol separator, 0 if none
Index(s, sep) ==
    IF \E n \in 1..Len(s) : s[n] = sep
    THEN CHOOSE n \in 1..Len(s) : s[n] = sep /\ \A m \in 1..(n - 1) : s[m] # sep
    ELSE 0

Cut(s, sep) ==
    LET n == Index(s, sep)
    IN IF n = 0
       THEN [before |-> s, after |-> <<>>, found |-> FALSE]
       ELSE [before |-> SubSeq(s, 1, n - 1),
             after |-> SubSeq(s, n + 1, Len(s)),
             found |-> TRUE]

RECURSIVE Split(_, _)
Split(s, sep) ==
    LET c == Cut(s, sep)
    IN IF c.found THEN <<c.before>> \o Split(c.after, sep) ELSE <<s>>

\* all orders in which a map with this key set can be ranged over
Orders(S) ==
    {o \in [1..Cardinality(S) -> S] : \A a, b \in DOMAIN o : a # b => o[a] # o[b]}

SeqsUpTo(S, n) == UNION {[1..k -> S] : k \in 0..n}

Range(s) == {s[n] : n \in DOMAIN s}

----------------------------------------------------------------------------
(* File modes *)

ModeDir == 31
ModeSymlink == 27
ModeSetuid == 23
ModeSetgid == 22
ModeSticky == 20

\* a mask of the nine rwx bits only
permissionMaskRwxOnly == 0..8

permissionMask == (0..8) \cup {ModeSetuid, ModeSetgid, ModeSticky}

M0644 == {8, 7, 5, 2}
M0755 == {8, 7, 6, 5, 3, 2, 0}
M4755 == M0755 \cup {ModeSetuid}
M0777 == 0..8

maxRegexFileSize == 1048576
binaryWindow == 8192

----------------------------------------------------------------------------
(* Errors *)

Nil == <<>>

\* a join that keeps the first non-nil error only
RECURSIVE JoinFirst(_)
JoinFirst(es) ==
    IF es = <<>>
    THEN Nil
    ELSE IF Head(es) # Nil THEN Head(es) ELSE JoinFirst(Tail(es))

\* errors.Join: nil values are dropped, the result is nil when nothing is left
RECURSIVE Join(_)
Join(es) ==
    IF es = <<>> THEN Nil ELSE Head(es) \o Join(Tail(es))

----------------------------------------------------------------------------
(* EnvCondition *)

ColonNames ==
    {<<"CDC_AGENT_PATH">>, <<"CRI_CONFIG_PATH">>, <<"GATUS_CONFIG_PATH">>,
     <<"GCONV_PATH">>, <<"GEM_PATH">>, <<"GETCONF_DIR">>, <<"GOPATH">>,
     <<"JAVA_HOME">>, <<"KO_DATA_PATH">>, <<"LD_LIBRARY_PATH">>,
     <<"LD_ORIGIN_PATH">>, <<"LD_PRELOAD">>, <<"LIBRARY_PATH">>, <<"LOCPATH">>,
     <<"MAAC_PATH">>, <<"MCAC_PATH">>, <<"NKEYS_PATH">>, <<"NIS_PATH">>,
     <<"NLSPATH">>, <<"OPENSEARCH_PATH_CONF">>, <<"PATH">>, <<"PERLLIB">>,
     <<"PYTHONPATH">>, <<"RESOLV_HOST_CONF">>, <<"TMPDIR">>, <<"TZDIR">>,
     <<"ZAP_PATH">>}

SemicolonNames == {<<"LUA_CPATH">>, <<"LUA_PATH">>}

\* a table in which every name is split on ":"
verifyEnvAllColons == [k \in ColonNames \cup SemicolonNames |-> ":"]

verifyEnv ==
    [k \in ColonNames \cup SemicolonNames |->
        IF k \in SemicolonNames THEN ";" ELSE ":"]

\* a Go map read: the zero value for a key that is not set
MapGet(m, k) == IF k \in DOMAIN m THEN m[k] ELSE <<>>

\* a split in which the first entry for a duplicate name wins
RECURSIVE splitEnvsFirstWins(_)
splitEnvsFirstWins(in) ==
    IF in = <<>>
    THEN <<>>
    ELSE LET out == splitEnvsFirstWins(Tail(in))
             kv == Cut(Head(in), "=")
         IN [k \in DOMAIN out \cup {kv.before} |->
                IF k = kv.before THEN kv.after ELSE out[k]]

RECURSIVE splitEnvs(_)
splitEnvs(in) ==
    IF in = <<>>
    THEN <<>>
    ELSE LET out == splitEnvs(SubSeq(in, 1, Len(in) - 1))
             kv == Cut(in[Len(in)], "=")
         IN [k \in DOMAIN out \cup {kv.before} |->
                IF k = kv.before THEN kv.after ELSE out[k]]

EnvMismatch(k, v, got) == <<"env does not match", k, v, got>>

EnvPathViolation(k, v, p) == <<"env references relative path or literal $", k, v, p>>

RECURSIVE AuditComponents(_, _, _)
AuditComponents(k, v, ps) ==
    IF ps = <<>>
    THEN <<>>
    ELSE (IF ~HasPrefix(Head(ps), <<"/">>) \/ Head(ps) = <<"$">> \o k
          THEN <<EnvPathViolation(k, v, Head(ps))>>
          ELSE <<>>)
         \o AuditComponents(k, v, Tail(ps))

\* a loop body that audits the wanted value only when the image's value matched
EnvCheckPairAuditOnMatch(k, v, split) ==
    IF MapGet(split, k) # v
    THEN <<EnvMismatch(k, v, MapGet(split, k))>>
    ELSE IF k \in DOMAIN verifyEnv
         THEN AuditComponents(k, v, Split(v, verifyEnv[k]))
         ELSE <<>>

\* the body of the range loop of EnvCondition.Check for one wanted pair
EnvCheckPair(k, v, split) ==
    (IF MapGet(split, k) # v
     THEN <<EnvMismatch(k, v, MapGet(split, k))>>
     ELSE <<>>)
    \o (IF k \in DOMAIN verifyEnv
        THEN AuditComponents(k, v, Split(v, verifyEnv[k]))
        ELSE <<>>)

\* a range loop that returns at the first wanted pair with a violation
RECURSIVE EnvRangeFirstFailure(_, _, _)
EnvRangeFirstFailure(order, want, split) ==
    IF order = <<>>
    THEN <<>>
    ELSE LET here == EnvCheckPair(Head(order), want[Head(order)], split)
         IN IF here # <<>>
            THEN here
            ELSE EnvRangeFirstFailure(Tail(order), want, split)

RECURSIVE EnvRange(_, _, _)
EnvRange(order, want, split) ==
    IF order = <<>>
    THEN <<>>
    ELSE EnvCheckPair(Head(order), want[Head(order)], split)
         \o EnvRange(Tail(order), want, split)

EnvConditionCheck(want, order, cfgEnv, flt) ==
    IF flt = "config"
    THEN <<<<"fatal", "config">>>>
    ELSE EnvRange(order, want, splitEnvs(cfgEnv))

----------------------------------------------------------------------------
(* FilesCondition *)

FileNotFound(path) == <<"file not found", path>>
FileOpenError(path) == <<"opening", path>>
FileTooLarge(path) == <<"file too large to match regex", path, maxRegexFileSize>>
FileBinary(path) == <<"file contains binary data", path>>
FileRegexMismatch(path, regex, got) == <<"file does not match regexp", path, regex, got>>
FileModeMismatch(path, want, got) == <<"file mode does not match", path, want, got>>

\* tarfs: a name the index does not hold is fs.ErrNotExist
Open(fs, name) ==
    IF name \notin DOMAIN fs \/ fs[name].kind = "absent"
    THEN [err |-> "ErrNotExist"]
    ELSE IF fs[name].kind = "error"
         THEN [err |-> "other"]
         ELSE [err |-> "nil", file |-> fs[name]]

\* io.ReadAll(io.LimitReader(tf, n)): the first n bytes of the content
ReadLimit(tf, n) ==
    [size |-> Min(tf.size, n),
     nul |-> IF tf.nul >= 0 /\ tf.nul < n THEN tf.nul ELSE -1,
     text |-> tf.text]

\* a binary check whose window is one byte too long
ContainsNulInclusive(got, window) ==
    got.nul >= 0 /\ got.nul < Min(got.size, window + 1)

\* bytes.Contains(got[:min(len(got), 8192)], []byte{0})
ContainsNul(got, window) ==
    got.nul >= 0 /\ got.nul < Min(got.size, window)

\* regexp.MustCompile(regex).Match(got), for the patterns of Regexes
Match(regex, got) ==
    CASE regex = ".*" -> TRUE
      [] regex = "bar" -> got.text = "bar" /\ got.size >= 3
      [] OTHER -> FALSE

\* an open failure that does not tell fs.ErrNotExist from other errors
OpenFailureAnyError(path, f, err) ==
    IF err = "ErrNotExist" /\ f.Optional
    THEN <<>>
    ELSE <<<<"opening", path>>>>

\* an open failure that does not look at Optional
OpenFailureNoOptional(path, f, err) ==
    IF err = "ErrNotExist"
    THEN <<<<"file not found", path>>>>
    ELSE <<<<"opening", path>>>>

\* the outcome of a failed fsys.Open for one wanted path
OpenFailure(path, f, err) ==
    IF err = "ErrNotExist" /\ f.Optional
    THEN <<>>
    ELSE IF err = "ErrNotExist"
         THEN <<FileNotFound(path)>>
         ELSE <<FileOpenError(path)>>

\* a regex stage that rejects a file of exactly the maximum size
RegexStageSizeInclusive(path, f, tf) ==
    IF f.Regex = ""
    THEN [errs |-> <<>>, skip |-> FALSE]
    ELSE IF tf.size >= maxRegexFileSize
         THEN [errs |-> <<<<"file too large to match regex", path, maxRegexFileSize>>>>,
               skip |-> TRUE]
         ELSE LET got == ReadLimit(tf, maxRegexFileSize)
              IN IF ContainsNul(got, binaryWindow)
                 THEN [errs |-> <<<<"file contains binary data", path>>>>, skip |-> TRUE]
                 ELSE IF ~Match(f.Regex, got)
                      THEN [errs |-> <<<<"file does not match regexp", path, f.Regex, got>>>>,
                            skip |-> FALSE]
                      ELSE [errs |-> <<>>, skip |-> FALSE]

\* the regex stage: its violations, and whether it left the loop body early
RegexStage(path, f, tf) ==
    IF f.Regex = ""
    THEN [errs |-> <<>>, skip |-> FALSE]
    ELSE IF tf.size > maxRegexFileSize
         THEN [errs |-> <<FileTooLarge(path)>>, skip |-> TRUE]
         ELSE LET got == ReadLimit(tf, maxRegexFileSize)
              IN IF ContainsNul(got, binaryWindow)
                 THEN [errs |-> <<FileBinary(path)>>, skip |-> TRUE]
                 ELSE IF ~Match(f.Regex, got)
                      THEN [errs |-> <<FileRegexMismatch(path, f.Regex, got)>>,
                            skip |-> FALSE]
                      ELSE [errs |-> <<>>, skip |-> FALSE]

\* a mode stage that compares only when no regex is wanted
ModeStageWithoutRegex(path, f, tf) ==
    IF f.Mode = <<>> \/ f.Regex # ""
    THEN <<>>
    ELSE LET got == tf.mode \cap permissionMask
             want == f.Mode[1] \cap permissionMask
         IN IF got # want THEN <<<<"file mode does not match", path, want, got>>>> ELSE <<>>

\* the mode stage; f.Mode is <<>> for a nil pointer and <<m>> otherwise
ModeStage(path, f, tf) ==
    IF f.Mode = <<>>
    THEN <<>>
    ELSE LET got == tf.mode \cap permissionMask
             want == f.Mode[1] \cap permissionMask
         IN IF got # want THEN <<FileModeMismatch(path, want, got)>> ELSE <<>>

\* the body of the range loop of FilesCondition.Check for one wanted path
FileCheckPath(path, f, fs) ==
    LET tf == Open(fs, TrimPrefix(path, <<"/">>))
    IN IF tf.err # "nil"
       THEN OpenFailure(path, f, tf.err)
       ELSE LET re == RegexStage(path, f, tf.file)
            IN IF re.skip
               THEN re.errs
               ELSE re.errs \o ModeStage(path, f, tf.file)

\* a range loop that returns at the first path with a violation
RECURSIVE FilesRangeFirstFailure(_, _, _)
FilesRangeFirstFailure(order, want, fs) ==
    IF order = <<>>
    THEN <<>>
    ELSE LET here == FileCheckPath(Head(order), want[Head(order)], fs)
         IN IF here # <<>>
            THEN here
            ELSE FilesRangeFirstFailure(Tail(order), want, fs)

RECURSIVE FilesRange(_, _, _)
FilesRange(order, want, fs) ==
    IF order = <<>>
    THEN <<>>
    ELSE FileCheckPath(Head(order), want[Head(order)], fs)
         \o FilesRange(Tail(order), want, fs)

\* the stages of the layer materialization that return an error
FatalStages == {"layers", "uncompressed", "createtemp", "copy", "index"}

FilesConditionCheck(want, order, fs, flt) ==
    IF flt \in FatalStages
    THEN <<<<"fatal", flt>>>>
    ELSE FilesRange(order, want, fs)

----------------------------------------------------------------------------
(* FilesCondition over the tar stream, with the early stop *)

AllRan(want) == \A p \in DOMAIN want : want[p].ran

\* the scan of the tar entries: the Want map and the errors it leaves
RECURSIVE ScanTar(_, _, _)
ScanTar(tr, want, es) ==
    IF tr = <<>>
    THEN [want |-> want, errs |-> es]
    ELSE LET hdr == Head(tr)
             name == IF HasPrefix(hdr.name, <<"/">>) THEN hdr.name ELSE <<"/">> \o hdr.name
         IN IF name \notin DOMAIN want
            THEN ScanTar(Tail(tr), want, es)
            ELSE LET es2 == IF want[name].Regex # "" /\ ~Match(want[name].Regex, hdr.content)
                            THEN Append(es, FileRegexMismatch(name, want[name].Regex, hdr.content))
                            ELSE es
                     want2 == [want EXCEPT ![name] = [Regex |-> want[name].Regex, ran |-> TRUE]]
                 IN IF AllRan(want2)
                    THEN [want |-> want2, errs |-> es2]
                    ELSE ScanTar(Tail(tr), want2, es2)

RECURSIVE NotRan(_, _)
NotRan(order, want) ==
    IF order = <<>>
    THEN <<>>
    ELSE (IF ~want[Head(order)].ran THEN <<FileNotFound(Head(order))>> ELSE <<>>)
         \o NotRan(Tail(order), want)

\* FilesCondition.Check of the streaming package, on the next image; the
\* Want map is a reference, so what the scan writes to it stays written
TarFilesConditionCheck ==
    /\ Len(results) < Len(tarStreams)
    /\ LET scan == ScanTar(tarStreams[Len(results) + 1], conds[1].want, <<>>)
       IN IF fault \in {"layers", "uncompressed"}
          THEN /\ results' = Append(results, [errs |-> << <<<<"fatal", fault>>>> >>,
                                              err |-> <<<<"fatal", fault>>>>])
               /\ conds' = conds
          ELSE /\ \E order \in Orders(DOMAIN conds[1].want) :
                     LET err == scan.errs \o NotRan(order, scan.want)
                     IN results' = Append(results, [errs |-> <<err>>, err |-> err])
               /\ conds' = [conds EXCEPT ![1].want = scan.want]
    /\ UNCHANGED <<fsys, env, fault, tarStreams, idx, errs, panic, io>>
    /\ UNCHANGED providerVars

----------------------------------------------------------------------------
(* The layer stream and the scratch file of a Check *)

NoIO == [opened |-> 0, closed |-> 0, created |-> 0, removed |-> 0]

\* the deferred calls of a Check, run last-registered first when it returns
\* or panics
RECURSIVE RunDefers(_, _)
RunDefers(n, defers) ==
    IF defers = <<>>
    THEN n
    ELSE LET call == defers[Len(defers)]
             after == IF call = "rc.Close"
                      THEN [n EXCEPT !.closed = @ + 1]
                      ELSE [n EXCEPT !.removed = @ + 1]
         IN RunDefers(after, SubSeq(defers, 1, Len(defers) - 1))

\* a prologue that defers the removal of the scratch file after the copy
MaterializationRemoveAfterCopy(n, flt) ==
    IF flt \in {"layers", "uncompressed"}
    THEN n
    ELSE LET stream == [n EXCEPT !.opened = @ + 1]
         IN IF flt = "createtemp"
            THEN RunDefers(stream, <<>>)
            ELSE LET tmp == [stream EXCEPT !.created = @ + 1]
                 IN IF flt = "copy"
                    THEN RunDefers(tmp, <<"rc.Close">>)
                    ELSE RunDefers(tmp, <<"rc.Close", "os.Remove">>)

\* the prologue of FilesCondition.Check, DirsCondition.Check and
\* PermissionsCondition.Check up to the return of Check: the stream is
\* opened by Uncompressed or Extract, the scratch file by CreateTemp, and
\* the two defers are registered after CreateTemp has succeeded
Materialization(n, flt) ==
    IF flt \in {"layers", "uncompressed"}
    THEN n
    ELSE LET stream == [n EXCEPT !.opened = @ + 1]
         IN IF flt = "createtemp"
            THEN RunDefers(stream, <<>>)
            ELSE LET tmp == [stream EXCEPT !.created = @ + 1]
                 IN RunDefers(tmp, <<"os.Remove", "rc.Close">>)

----------------------------------------------------------------------------
(* The filesystem view: Stat and WalkDir *)

IsDir(fi) == ModeDir \in fi.mode

IsSymlink(fi) == ModeSymlink \in fi.mode

NotExist(name) == <<"file does not exist", name>>

Present(fs, name) == name \in DOMAIN fs /\ fs[name].kind # "absent"

\* fsys.Stat: fi is set only when err is nil
Stat(fs, name) ==
    IF Present(fs, name)
    THEN [err |-> Nil, fi |-> <<fs[name]>>]
    ELSE [err |-> <<NotExist(name)>>, fi |-> <<>>]

\* the names of the view in lexical order, in which fs.WalkDir visits them
WalkOrder ==
    << <<".wh.", "a">>, <<"a">>, <<"b">>,
       <<"d">>, <<"d", "/", "b">>, <<"d", "/", "b", "/", "c">>,
       <<"d", "/", "b", "e">>, <<"e">> >>

Under(root, name) == name = root \/ HasPrefix(name, root \o <<"/">>)

\* fs.WalkDir with a callback that returns the error it is handed and nil
\* for every entry: the names handed to the callback with their entry, and
\* the error of the walk (that of the Stat of the root)
WalkDir(fs, root) ==
    IF Stat(fs, root).err # Nil
    THEN [visited |-> <<>>, err |-> Stat(fs, root).err]
    ELSE [visited |-> SelectSeq(WalkOrder, LAMBDA n : Present(fs, n) /\ Under(root, n)),
          err |-> Nil]

----------------------------------------------------------------------------
(* Materialization of the layers *)

\* a tar header is a whiteout when its base name starts with ".wh."
IsWhiteout(hdr) == Head(hdr.name) = ".wh."

\* tarfs.New on one tar stream: every header is indexed by its name
Indexed(layer) ==
    [name \in {layer[n].name : n \in DOMAIN layer} |->
        layer[CHOOSE n \in DOMAIN layer : layer[n].name = name].entry]

\* mutate.Extract of go-containerregistry, taken with the layer semantics of
\* the image format: an entry of a layer replaces the entry of the same name
\* of the layers below it, and a whiteout removes the name, and what lies
\* under it, from the layers below it
RECURSIVE Extract(_)
Extract(ls) ==
    IF ls = <<>>
    THEN <<>>
    ELSE LET lower == Extract(SubSeq(ls, 1, Len(ls) - 1))
             top == ls[Len(ls)]
             deleted == {Tail(top[n].name) : n \in {m \in DOMAIN top : IsWhiteout(top[m])}}
             kept == {name \in DOMAIN lower : \A del \in deleted : ~Under(del, name)}
             added == Indexed(SelectSeq(top, LAMBDA hdr : ~IsWhiteout(hdr)))
         IN [name \in kept \cup DOMAIN added |->
                IF name \in DOMAIN added THEN added[name] ELSE lower[name]]

\* the tar stream the view is built on: one layer is taken as it is
Materialize(ls) == IF Len(ls) = 1 THEN Indexed(ls[1]) ELSE Extract(ls)

----------------------------------------------------------------------------
(* DirsCondition *)

DirModeMismatch(path, want, got) == <<"directory mode does not match", path, want, got>>

NilDereference == <<"invalid memory address or nil pointer dereference">>

\* the branch of the range loop for a path that is not recursive: after a
\* failed Stat the error is appended and fi.Mode() is called on the nil fi
DirCheckStat(path, dir, fs) ==
    LET st == Stat(fs, TrimPrefix(path, <<"/">>))
    IN IF st.err # Nil
       THEN [errs |-> st.err, panic |-> NilDereference]
       ELSE LET fi == st.fi[1]
                got == fi.mode \cap permissionMask
                want == dir.Mode \cap permissionMask
            IN [errs |-> IF IsDir(fi) /\ got # want
                         THEN <<DirModeMismatch(path, want, got)>>
                         ELSE <<>>,
                panic |-> <<>>]

\* a callback that compares the mode of symlinks too
DirWalkFnChecksSymlinks(name, d, dir) ==
    IF dir.FilesOnly /\ IsDir(d)
    THEN <<>>
    ELSE LET got == d.mode \cap permissionMask
             want == dir.Mode \cap permissionMask
         IN IF got # want
            THEN <<FileModeMismatch(name, want, got)>>
            ELSE <<>>

\* the callback of the walk of a recursive path, on one entry
DirWalkFn(name, d, dir) ==
    IF IsSymlink(d)
    THEN <<>>
    ELSE IF dir.FilesOnly /\ IsDir(d)
         THEN <<>>
         ELSE LET got == d.mode \cap permissionMask
                  want == dir.Mode \cap permissionMask
              IN IF got # want
                 THEN <<FileModeMismatch(name, want, got)>>
                 ELSE <<>>

RECURSIVE DirWalk(_, _, _)
DirWalk(visited, dir, fs) ==
    IF visited = <<>>
    THEN <<>>
    ELSE DirWalkFn(Head(visited), fs[Head(visited)], dir)
         \o DirWalk(Tail(visited), dir, fs)

\* the branch of the range loop for a recursive path
DirCheckWalk(path, dir, fs) ==
    LET walk == WalkDir(fs, TrimPrefix(path, <<"/">>))
    IN [errs |-> DirWalk(walk.visited, dir, fs) \o walk.err,
        panic |-> <<>>]

DirCheckPath(path, dir, fs) ==
    IF ~dir.Recursive
    THEN DirCheckStat(path, dir, fs)
    ELSE DirCheckWalk(path, dir, fs)

\* a range loop that returns at the first path whose walk failed
RECURSIVE DirsRangeWalkErrorFatal(_, _, _)
DirsRangeWalkErrorFatal(order, want, fs) ==
    IF order = <<>>
    THEN [errs |-> <<>>, panic |-> <<>>]
    ELSE LET here == DirCheckPath(Head(order), want[Head(order)], fs)
             rest == DirsRangeWalkErrorFatal(Tail(order), want, fs)
         IN IF here.panic # <<>>
            THEN here
            ELSE IF want[Head(order)].Recursive /\ Stat(fs, Tail(Head(order))).err # Nil
                 THEN [errs |-> Stat(fs, Tail(Head(order))).err, panic |-> <<>>]
                 ELSE [errs |-> here.errs \o rest.errs, panic |-> rest.panic]

\* the range loop, which a panic leaves
RECURSIVE DirsRange(_, _, _)
DirsRange(order, want, fs) ==
    IF order = <<>>
    THEN [errs |-> <<>>, panic |-> <<>>]
    ELSE LET here == DirCheckPath(Head(order), want[Head(order)], fs)
             rest == DirsRange(Tail(order), want, fs)
         IN IF here.panic # <<>>
            THEN here
            ELSE [errs |-> here.errs \o rest.errs, panic |-> rest.panic]

DirsConditionCheck(want, order, fs, flt) ==
    IF flt \in FatalStages
    THEN [errs |-> <<<<"fatal", flt>>>>, panic |-> <<>>]
    ELSE DirsRange(order, want, fs)

----------------------------------------------------------------------------
(* PermissionsCondition *)

PermissionBlocked(path, block, got) ==
    <<"file mode matches blocked permission", path, block, got>>

\* an override that covers every path it is a prefix of
RECURSIVE hasOverridePrefixOnly(_, _)
hasOverridePrefixOnly(filePath, overrides) ==
    IF overrides = <<>>
    THEN FALSE
    ELSE HasPrefix(filePath, TrimPrefix(Head(overrides), <<"/">>))
         \/ hasOverridePrefixOnly(filePath, Tail(overrides))

RECURSIVE hasOverride(_, _)
hasOverride(filePath, overrides) ==
    IF overrides = <<>>
    THEN FALSE
    ELSE LET name == TrimPrefix(Head(overrides), <<"/">>)
         IN IF /\ HasPrefix(filePath, name)
               /\ (filePath = name \/ HasPrefix(filePath, name \o <<"/">>))
            THEN TRUE
            ELSE hasOverride(filePath, Tail(overrides))

\* a callback that reports a blocked mode whatever the overrides
PermWalkFnNoOverride(name, d, perm) ==
    IF IsSymlink(d)
    THEN <<>>
    ELSE LET got == d.mode \cap permissionMask
             block == perm.Block \cap permissionMask
         IN IF got = block
            THEN <<PermissionBlocked(name, block, got)>>
            ELSE <<>>

\* the callback of the walk, on one entry
PermWalkFn(name, d, perm) ==
    IF IsSymlink(d)
    THEN <<>>
    ELSE LET got == d.mode \cap permissionMask
             block == perm.Block \cap permissionMask
         IN IF got = block /\ ~hasOverride(name, perm.Override)
            THEN <<PermissionBlocked(name, block, got)>>
            ELSE <<>>

RECURSIVE PermWalk(_, _, _)
PermWalk(visited, perm, fs) ==
    IF visited = <<>>
    THEN <<>>
    ELSE PermWalkFn(Head(visited), fs[Head(visited)], perm)
         \o PermWalk(Tail(visited), perm, fs)

\* the body of the range loop of PermissionsCondition.Check for one path
PermCheckPath(path, perm, fs) ==
    LET walk == WalkDir(fs, TrimPrefix(path, <<"/">>))
    IN PermWalk(walk.visited, perm, fs) \o walk.err

RECURSIVE PermissionsRange(_, _, _)
PermissionsRange(order, want, fs) ==
    IF order = <<>>
    THEN <<>>
    ELSE PermCheckPath(Head(order), want[Head(order)], fs)
         \o PermissionsRange(Tail(order), want, fs)

PermissionsConditionCheck(want, order, fs, flt) ==
    IF flt \in FatalStages
    THEN <<<<"fatal", flt>>>>
    ELSE PermissionsRange(order, want, fs)

----------------------------------------------------------------------------
(* Conditions.Check *)

\* one iteration of the loop of Conditions.Check, on an EnvCondition
ConditionsCheckEnv ==
    /\ idx <= Len(conds)
    /\ conds[idx].kind = "env"
    /\ \E order \in Orders(DOMAIN conds[idx].want) :
          errs' = Append(errs, EnvConditionCheck(conds[idx].want, order, env, fault))
    /\ idx' = idx + 1
    /\ UNCHANGED <<fsys, env, fault, tarStreams, conds, results, panic, io>>
    /\ UNCHANGED providerVars

\* one iteration of the loop of Conditions.Check, on a FilesCondition
ConditionsCheckFiles ==
    /\ idx <= Len(conds)
    /\ conds[idx].kind = "files"
    /\ \E order \in Orders(DOMAIN conds[idx].want) :
          errs' = Append(errs, FilesConditionCheck(conds[idx].want, order, fsys, fault))
    /\ idx' = idx + 1
    /\ io' = Materialization(io, fault)
    /\ UNCHANGED <<fsys, env, fault, tarStreams, conds, results, panic>>
    /\ UNCHANGED providerVars

\* one iteration of the loop of Conditions.Check, on a DirsCondition; a
\* panic of the condition's Check unwinds through Conditions.Check
ConditionsCheckDirs ==
    /\ panic = <<>>
    /\ idx <= Len(conds)
    /\ conds[idx].kind = "dirs"
    /\ \E order \in Orders(DOMAIN conds[idx].want) :
          LET out == DirsConditionCheck(conds[idx].want, order, fsys, fault)
          IN IF out.panic # <<>>
             THEN /\ panic' = out.panic
                  /\ UNCHANGED <<idx, errs>>
             ELSE /\ errs' = Append(errs, out.errs)
                  /\ idx' = idx + 1
                  /\ panic' = panic
    /\ io' = Materialization(io, fault)
    /\ UNCHANGED <<fsys, env, fault, tarStreams, conds, results>>
    /\ UNCHANGED providerVars

\* one iteration of the loop of Conditions.Check, on a PermissionsCondition
ConditionsCheckPermissions ==
    /\ idx <= Len(conds)
    /\ conds[idx].kind = "permissions"
    /\ \E order \in Orders(DOMAIN conds[idx].want) :
          errs' = Append(errs, PermissionsConditionCheck(conds[idx].want, order, fsys, fault))
    /\ idx' = idx + 1
    /\ io' = Materialization(io, fault)
    /\ UNCHANGED <<fsys, env, fault, tarStreams, conds, results, panic>>
    /\ UNCHANGED providerVars

\* the loop is over: the errors are joined and returned; the caller may
\* then run Check again on the same image and conditions
ConditionsCheckReturn ==
    /\ idx > Len(conds)
    /\ Len(results) < MaxRuns
    /\ results' = Append(results, [errs |-> errs, err |-> Join(errs)])
    /\ idx' = 1
    /\ errs' = <<>>
    /\ io' = NoIO
    /\ UNCHANGED <<fsys, env, fault, tarStreams, conds, panic>>
    /\ UNCHANGED providerVars

----------------------------------------------------------------------------
(* Images and conditions *)

FOO == <<"FOO">>
BAR == <<"BAR">>
PATH == <<"PATH">>

PathA == <<"/", "a">>
PathB == <<"/", "b">>
Paths == {PathA, PathB}

\* tar entries are stored without the leading slash
FsNames == {<<"a">>, <<"b">>}

AbsentEntry == [kind |-> "absent", mode |-> {}, size |-> 0, nul |-> -1, text |-> ""]
ErrorEntry == [kind |-> "error", mode |-> {}, size |-> 0, nul |-> -1, text |-> ""]

FileSizes == {3, binaryWindow + 1, maxRegexFileSize, maxRegexFileSize + 1}
NulOffsets == {-1, binaryWindow - 1, binaryWindow}
Texts == {"bar", "foo"}
FileModes == {M0644, M0755, M4755}

FileEntries ==
    {e \in [kind : {"file"}, mode : FileModes, size : FileSizes,
            nul : NulOffsets, text : Texts] : e.nul < e.size}

PlainFile == [kind |-> "file", mode |-> M0644, size |-> 3, nul |-> -1, text |-> "bar"]

Regexes == {"", ".*", "bar"}
WantModes == {<<>>, <<M0644>>, <<M0755>>}

FileSpecs == [Optional : BOOLEAN, Mode : WantModes, Regex : Regexes]

MapsOver(Keys, Values) == UNION {[D -> Values] : D \in (SUBSET Keys) \ {{}}}

\* an image is its filesystem view, its config env and the stage, if any,
\* at which reading it fails
Images(FsysSet, EnvSet, FaultSet) == [fsys : FsysSet, env : EnvSet, fault : FaultSet]

Init(ImageSet, CondsSet) ==
    /\ \E i \in ImageSet :
          /\ fsys = i.fsys
          /\ env = i.env
          /\ fault = i.fault
    /\ tarStreams = <<>>
    /\ conds \in CondsSet
    /\ idx = 1
    /\ errs = <<>>
    /\ results = <<>>
    /\ panic = <<>>
    /\ io = NoIO
    /\ ProviderIdle

\* Conditions.Check over lists of conditions
ExistenceOnly == [Optional |-> FALSE, Mode |-> <<>>, Regex |-> ""]

SomeConditions ==
    {[kind |-> "env", want |-> (FOO :> <<"x">>)],
     [kind |-> "env", want |-> (BAR :> <<"y">>)],
     [kind |-> "files",
      want |-> (PathA :> [Optional |-> FALSE, Mode |-> <<M0755>>, Regex |-> "bar"])
               @@ (PathB :> ExistenceOnly)],
     [kind |-> "files",
      want |-> (PathB :> [Optional |-> TRUE, Mode |-> <<>>, Regex |-> ".*"])]}

Faults == {"none", "config"} \cup FatalStages

NoFiles == [n \in FsNames |-> AbsentEntry]

InitConditions ==
    Init(Images([FsNames -> {AbsentEntry, PlainFile}],
                {<<>>, << <<"FOO", "=", "x">> >>},
                {"none"})
         \cup Images({NoFiles}, {<<>>}, Faults),
         SeqsUpTo(SomeConditions, MaxConds) \ {<<>>})

Next == ConditionsCheckEnv \/ ConditionsCheckFiles \/ ConditionsCheckReturn

Spec == InitConditions /\ [][Next]_vars

\* one FilesCondition over every file the model distinguishes at PathA
OtherEntries == {AbsentEntry, PlainFile}
OtherSpecs == {ExistenceOnly, [Optional |-> TRUE, Mode |-> <<M0755>>, Regex |-> "bar"]}

FilesWants ==
    {w \in MapsOver(Paths, FileSpecs) : PathB \in DOMAIN w => w[PathB] \in OtherSpecs}

InitFiles ==
    Init(Images({fs \in [FsNames -> FileEntries \cup {AbsentEntry, ErrorEntry}] :
                    fs[<<"b">>] \in OtherEntries},
                {<<>>},
                {"none"}),
         {<<[kind |-> "files", want |-> w]>> : w \in FilesWants})

NextFiles == ConditionsCheckFiles \/ ConditionsCheckReturn

SpecFiles == InitFiles /\ [][NextFiles]_vars

\* one EnvCondition over env lists with duplicates and entries without "="
EnvEntries ==
    {<<"FOO", "=", "x">>, <<"FOO">>, <<"FOO", "=">>,
     <<"FOO", "=", "x", "=", "y">>, <<"BAR", "=", "x">>, <<"PATH", "=", "/", "x">>}

WantValues ==
    {<<>>, <<"x">>, <<"x", "=", "y">>, <<"/", "x">>, <<"$", "PATH">>}

InitEnv ==
    Init(Images({NoFiles}, SeqsUpTo(EnvEntries, MaxEnv), {"none"}),
         {<<[kind |-> "env", want |-> w]>> : w \in MapsOver({FOO, PATH}, WantValues)})

NextEnv == ConditionsCheckEnv \/ ConditionsCheckReturn

SpecEnv == InitEnv /\ [][NextEnv]_vars

\* one EnvCondition over names of the PATH-like table and values that mix
\* both separators
LUA_PATH == <<"LUA_PATH">>

AuditValues ==
    {<<"$", "PATH">>,
     <<"/", "x", ":", "/", "y">>,
     <<"y", ";", "/", "x">>,
     <<"/", "x", ":", "y">>}

AuditEnvs ==
    {<<>>,
     << <<"PATH", "=", "$", "PATH">> >>,
     << <<"PATH", "=", "/", "x", ":", "/", "y">>,
        <<"LUA_PATH", "=", "y", ";", "/", "x">> >>}

AuditWants ==
    {w \in MapsOver({FOO, PATH, LUA_PATH}, AuditValues) :
        FOO \in DOMAIN w => w[FOO] = <<"/", "x", ":", "y">>}

InitAudit ==
    Init(Images({NoFiles}, AuditEnvs, {"none"}),
         {<<[kind |-> "env", want |-> w]>> : w \in AuditWants})

SpecAudit == InitAudit /\ [][NextEnv]_vars

\* images with directories and symlinks: the entries of a tar layer under
\* /d and /e, every present entry lying in present directories
PathD == <<"/", "d">>
PathE == <<"/", "e">>
PathDb == <<"/", "d", "/", "b">>

Directory(m) ==
    [kind |-> "dir", mode |-> m \cup {ModeDir}, size |-> 0, nul |-> -1, text |-> ""]

RegularFile(m) == [kind |-> "file", mode |-> m, size |-> 3, nul |-> -1, text |-> "bar"]

Symlink ==
    [kind |-> "symlink", mode |-> M0777 \cup {ModeSymlink}, size |-> 0, nul |-> -1,
     text |-> ""]

TreeNames == {n \in Range(WalkOrder) : Head(n) \in {"d", "e"}}

TreeEntries ==
    (<<"d">> :> {AbsentEntry, Directory(M0755), Directory(M0777), RegularFile(M0755)})
    @@ (<<"d", "/", "b">> :>
           {AbsentEntry, Directory(M0755), Directory(M0777), RegularFile(M0777), Symlink})
    @@ (<<"d", "/", "b", "/", "c">> :> {AbsentEntry, RegularFile(M0755), RegularFile(M0777)})
    @@ (<<"d", "/", "b", "e">> :>
           {AbsentEntry, RegularFile(M0755), RegularFile(M0777), RegularFile(M4755)})
    @@ (<<"e">> :> {AbsentEntry, Directory(M0755), RegularFile(M0777)})

WellFormed(fs) ==
    \A n \in DOMAIN fs : \A m \in DOMAIN fs :
        (Present(fs, n) /\ m # n /\ Under(m, n)) => fs[m].kind = "dir"

Trees ==
    {fs \in [TreeNames -> UNION {TreeEntries[n] : n \in TreeNames}] :
        WellFormed(fs) /\ \A n \in TreeNames : fs[n] \in TreeEntries[n]}

\* one DirsCondition
DirSpecs == [FilesOnly : BOOLEAN, Mode : {M0755, M0777}, Recursive : BOOLEAN]

DirsWants ==
    {w \in MapsOver({PathD, PathE}, DirSpecs) :
        PathE \in DOMAIN w => (w[PathE].Mode = M0755 /\ ~w[PathE].FilesOnly)}

InitDirs ==
    Init(Images(Trees, {<<>>}, {"none"}),
         {<<[kind |-> "dirs", want |-> w]>> : w \in DirsWants})

NextDirs == ConditionsCheckDirs \/ ConditionsCheckReturn

SpecDirs == InitDirs /\ [][NextDirs]_vars

\* one PermissionsCondition
Overrides ==
    {<<>>,
     <<PathDb>>,
     <<PathD>>,
     << <<"/">> >>,
     <<PathDb \o <<"/">>>>,
     <<PathE, PathDb>>}

PermSpecs == [Block : {M0755, M0777}, Override : Overrides]

PermissionsWants ==
    {w \in MapsOver({PathD, PathE}, PermSpecs) :
        PathE \in DOMAIN w => w[PathE].Override = <<>>}

InitPermissions ==
    Init(Images(Trees, {<<>>}, {"none"}),
         {<<[kind |-> "permissions", want |-> w]>> : w \in PermissionsWants})

NextPermissions == ConditionsCheckPermissions \/ ConditionsCheckReturn

SpecPermissions == InitPermissions /\ [][NextPermissions]_vars

\* images of one or more layers that create, replace and white out /a,
\* under one FilesCondition or one DirsCondition on /a
MaxLayers == 2

Header(name, entry) == [name |-> name, entry |-> entry]

Whiteout(name) ==
    Header(<<".wh.">> \o name,
           [kind |-> "file", mode |-> M0644, size |-> 0, nul |-> -1, text |-> ""])

LayerContents ==
    {<<Header(<<"a">>, RegularFile(M0644))>>,
     <<Whiteout(<<"a">>), Header(<<"a">>, Directory(M0755))>>,
     <<Header(<<"a">>, Directory(M0755)), Whiteout(<<"a">>)>>,
     <<Header(<<"a">>, Directory(M0777))>>,
     <<Whiteout(<<"a">>)>>,
     <<Header(<<"b">>, RegularFile(M0644))>>}

LayerNames == {<<".wh.", "a">>, <<"a">>, <<"b">>}

View(ls) ==
    [name \in LayerNames |->
        IF name \in DOMAIN Materialize(ls) THEN Materialize(ls)[name] ELSE AbsentEntry]

LayerConditions ==
    {<<[kind |-> "files", want |-> (PathA :> f)]>> :
        f \in [Optional : BOOLEAN, Mode : {<<>>, <<M0755>>}, Regex : {""}]}
    \cup {<<[kind |-> "dirs", want |-> (PathA :> d)]>> :
              d \in [FilesOnly : {FALSE}, Mode : {M0755, M0777}, Recursive : BOOLEAN]}

InitLayers ==
    /\ tarStreams \in SeqsUpTo(LayerContents, MaxLayers) \ {<<>>}
    /\ fsys = View(tarStreams)
    /\ env = <<>>
    /\ fault = "none"
    /\ conds \in LayerConditions
    /\ idx = 1
    /\ errs = <<>>
    /\ results = <<>>
    /\ panic = <<>>
    /\ io = NoIO
    /\ ProviderIdle

NextLayers == ConditionsCheckFiles \/ ConditionsCheckDirs \/ ConditionsCheckReturn

SpecLayers == InitLayers /\ [][NextLayers]_vars

\* one condition of any of the three kinds that read the view
PathDbe == <<"/", "d", "/", "b", "e">>

TreeFilesWants ==
    {(PathDbe :> [Optional |-> FALSE, Mode |-> <<m>>, Regex |-> ""]) :
        m \in {M0755, M0777, M4755}}

InitTrees ==
    Init(Images(Trees, {<<>>}, {"none"}),
         {<<[kind |-> "files", want |-> w]>> : w \in TreeFilesWants}
         \cup {<<[kind |-> "dirs", want |-> w]>> : w \in DirsWants}
         \cup {<<[kind |-> "permissions", want |-> w]>> : w \in PermissionsWants})

NextTrees ==
    \/ ConditionsCheckFiles
    \/ ConditionsCheckDirs
    \/ ConditionsCheckPermissions
    \/ ConditionsCheckReturn

SpecTrees == InitTrees /\ [][NextTrees]_vars

\* lists of conditions of the four kinds over images whose materialization
\* fails at one of its stages, or at none
FaultConditions ==
    {[kind |-> "env", want |-> (FOO :> <<"x">>)],
     [kind |-> "files",
      want |-> (PathDbe :> [Optional |-> FALSE, Mode |-> <<M0755>>, Regex |-> ""])],
     [kind |-> "dirs",
      want |-> (PathD :> [FilesOnly |-> FALSE, Mode |-> M0755, Recursive |-> TRUE])],
     [kind |-> "permissions", want |-> (PathD :> [Block |-> M0777, Override |-> <<>>])]}

FaultTrees ==
    {fs \in Trees :
        /\ fs[<<"d">>] = Directory(M0755)
        /\ fs[<<"d", "/", "b">>] = AbsentEntry
        /\ fs[<<"d", "/", "b", "e">>] \in {RegularFile(M0755), RegularFile(M0777)}
        /\ fs[<<"e">>] = AbsentEntry}

InitFaults ==
    Init(Images(FaultTrees, {<<>>, << <<"FOO", "=", "x">> >>}, Faults),
         SeqsUpTo(FaultConditions, MaxConds) \ {<<>>})

NextFaults ==
    \/ ConditionsCheckEnv
    \/ ConditionsCheckFiles
    \/ ConditionsCheckDirs
    \/ ConditionsCheckPermissions
    \/ ConditionsCheckReturn

SpecFaults == InitFaults /\ [][NextFaults]_vars

\* one streaming FilesCondition checked against two images in turn
TarEntries ==
    {[name |-> <<"a">>, content |-> [size |-> 3, nul |-> -1, text |-> "bar"]],
     [name |-> <<"a">>, content |-> [size |-> 3, nul |-> -1, text |-> "foo"]],
     [name |-> <<"b">>, content |-> [size |-> 3, nul |-> -1, text |-> "bar"]]}

TarWants == MapsOver(Paths, [Regex : {"", "bar"}, ran : {FALSE}])

InitTar ==
    /\ fsys = NoFiles
    /\ env = <<>>
    /\ fault \in {"none", "layers"}
    /\ tarStreams \in [{1, 2} -> SeqsUpTo(TarEntries, MaxTar)]
    /\ conds \in {<<[kind |-> "tar", want |-> w]>> : w \in TarWants}
    /\ idx = 1
    /\ errs = <<>>
    /\ results = <<>>
    /\ panic = <<>>
    /\ io = NoIO
    /\ ProviderIdle

NextTar == TarFilesConditionCheck

SpecTar == InitTar /\ [][NextTar]_vars

----------------------------------------------------------------------------
(* The registry: remote.Get, remote.Head and remote.Tag *)

Repo == "example.com/repo"
D1 == "sha256:1"
D2 == "sha256:2"
Digests == {D1, D2}
TagNames == {"foo", "bar"}

\* a tag that is not set resolves to no digest
NoDigest == ""

AbsentManifest == [MediaType |-> "absent", Manifests |-> <<>>]
ImageManifest == [MediaType |-> "image", Manifests |-> <<>>]

\* name.Tag.Name() and the "%s@%s" of the ids
TagRef(tag) == <<Repo, ":", tag>>
DigestRefOf(digest) == <<Repo, "@", digest>>
TaggedRefOf(tag, digest) == TagRef(tag) \o <<"@", digest>>

\* name.NewDigest(ref).DigestStr()
DigestStr(ref) == ref[3]

\* remote.Get and remote.Head of a digest reference
RemoteGetDigest(reg, digest) ==
    IF reg.manifests[digest].MediaType = "absent"
    THEN [err |-> <<"MANIFEST_UNKNOWN", digest>>, Digest |-> NoDigest,
          desc |-> AbsentManifest]
    ELSE [err |-> <<>>, Digest |-> digest, desc |-> reg.manifests[digest]]

\* remote.Get and remote.Head of a tag reference
RemoteGetTag(reg, tag) ==
    IF reg.tags[tag] = NoDigest
    THEN [err |-> <<"MANIFEST_UNKNOWN", tag>>, Digest |-> NoDigest,
          desc |-> AbsentManifest]
    ELSE RemoteGetDigest(reg, reg.tags[tag])

\* remote.Tag: the registry refuses to write the tags it holds immutable
RemoteTagDenied(reg, tag) == tag \in reg.deny

RemoteTag(reg, tag, digest) == [reg EXCEPT !.tags[tag] = digest]

----------------------------------------------------------------------------
(* TagResource *)

NoResp == [op |-> "", Diagnostics |-> <<>>]
NullState == [Id |-> <<>>, TaggedRef |-> <<>>]
EmptyString == <<>>

TagError(detail) == <<"Tag Error", detail>>

\* the tags of the deprecated tag attribute or of the tags attribute
RequestedTags(dt) ==
    IF dt.Tag # "" THEN <<dt.Tag>> ELSE dt.Tags

\* the loop of Read over the tags: "return" when a tag cannot be fetched,
\* "break" at the first tag that resolves to another digest
RECURSIVE ReadRange(_, _, _)
ReadRange(reg, tags, digest) ==
    IF tags = <<>> THEN "done"
    ELSE LET got == RemoteGetTag(reg, Head(tags))
         IN IF got.err # <<>> THEN "return"
            ELSE IF got.Digest # digest THEN "break"
            ELSE ReadRange(reg, Tail(tags), digest)

\* Read: the state it saves, or the prior state when it returns early
TagResourceReadState(reg, dt, st) ==
    LET digest == DigestStr(dt.DigestRef)
        tags == RequestedTags(dt)
        loop == ReadRange(reg, tags, digest)
        cleared == IF loop = "break"
                   THEN [st EXCEPT !.Id = EmptyString, !.TaggedRef = EmptyString]
                   ELSE st
        id == TaggedRefOf(tags[1], digest)
    IN IF loop = "return" THEN st
       ELSE [cleared EXCEPT !.Id = id, !.TaggedRef = id]

TagResourceRead ==
    /\ data.kind = "oci_tag"
    /\ errg = <<>>
    /\ state # NullState
    /\ state' = TagResourceReadState(registry, data, state)
    /\ resp' = [op |-> "Read", Diagnostics |-> <<>>]
    /\ UNCHANGED <<registry, data, errg, ports>>
    /\ UNCHANGED structureVars

\* doTag up to the start of the tasks
DoTagPrologue(reg, dt) ==
    LET tags == RequestedTags(dt)
        got == RemoteGetDigest(reg, DigestStr(dt.DigestRef))
    IN IF dt.Tag = "" /\ dt.Tags = <<>>
       THEN [err |-> <<"either tag or tags must be set">>, tags |-> <<>>, Digest |-> NoDigest]
       ELSE IF dt.Tag # "" /\ dt.Tags # <<>>
       THEN [err |-> <<"only one of tag or tags may be set">>, tags |-> <<>>, Digest |-> NoDigest]
       ELSE IF got.err # <<>>
       THEN [err |-> <<"error fetching digest">> \o got.err, tags |-> <<>>, Digest |-> NoDigest]
       ELSE [err |-> <<>>, tags |-> tags, Digest |-> got.Digest]

\* Create and Update, to the point where doTag has started one task per tag
TagResourceCreate ==
    /\ data.kind = "oci_tag"
    /\ errg = <<>>
    /\ LET pre == DoTagPrologue(registry, data)
       IN IF pre.err # <<>>
          THEN /\ resp' = [op |-> "Create", Diagnostics |-> <<TagError(pre.err)>>]
               /\ errg' = errg
          ELSE /\ resp' = NoResp
               /\ errg' = [tags |-> pre.tags, Digest |-> pre.Digest,
                           ret |-> [i \in DOMAIN pre.tags |-> "running"],
                           err |-> <<>>]
    /\ UNCHANGED <<registry, data, state, ports>>
    /\ UNCHANGED structureVars

\* one task of the errgroup; the group's context is cancelled by the first
\* error, and a remote.Tag under a cancelled context may fail or complete
DoTagTask(i) ==
    /\ errg # <<>>
    /\ i \in DOMAIN errg.ret
    /\ errg.ret[i] = "running"
    /\ LET tag == errg.tags[i]
           cancelled == errg.err # <<>>
       IN \E ok \in BOOLEAN :
             /\ RemoteTagDenied(registry, tag) => ~ok
             /\ ~ok => (RemoteTagDenied(registry, tag) \/ cancelled)
             /\ IF ok
                THEN /\ registry' = RemoteTag(registry, tag, errg.Digest)
                     /\ errg' = [errg EXCEPT !.ret[i] = "nil"]
                ELSE /\ registry' = registry
                     /\ errg' = [errg EXCEPT !.ret[i] = "err",
                                    !.err = IF cancelled THEN @
                                            ELSE <<"error tagging digest with", tag>>]
    /\ UNCHANGED <<data, state, resp, ports>>
    /\ UNCHANGED structureVars

\* what doTag returns once errg.Wait has returned
DoTagIdOfLastTag(g) == TaggedRefOf(g.tags[Len(g.tags)], g.Digest)

DoTagId(g) == TaggedRefOf(g.tags[1], g.Digest)

\* errg.Wait returns, doTag returns and Create saves the state
TagResourceCreateReturn ==
    /\ errg # <<>>
    /\ \A i \in DOMAIN errg.ret : errg.ret[i] # "running"
    /\ IF errg.err # <<>>
       THEN /\ resp' = [op |-> "Create", Diagnostics |-> <<TagError(errg.err)>>]
            /\ state' = state
       ELSE /\ resp' = [op |-> "Create", Diagnostics |-> <<>>]
            /\ state' = [Id |-> DoTagId(errg), TaggedRef |-> DoTagId(errg)]
    /\ errg' = <<>>
    /\ UNCHANGED <<registry, data, ports>>
    /\ UNCHANGED structureVars

\* the bound on the length of the tags attribute
MaxTags == 3

TagData ==
    [kind : {"oci_tag"}, DigestRef : {DigestRefOf(d) : d \in Digests},
     Tag : {"", "foo"}, Tags : SeqsUpTo(TagNames, MaxTags)]

\* the state a successful apply of dt has saved
Applied(dt) ==
    LET id == TaggedRefOf(RequestedTags(dt)[1], DigestStr(dt.DigestRef))
    IN [Id |-> id, TaggedRef |-> id]

\* repositories that hold D1, hold D2 or not, and whose tags point to
\* manifests they hold
Registries ==
    {r \in [tags : [TagNames -> Digests \cup {NoDigest}],
            manifests : [Digests -> {AbsentManifest, ImageManifest}],
            deny : {{}, {"bar"}}] :
        /\ r.manifests[D1] = ImageManifest
        /\ \A t \in TagNames :
              r.tags[t] # NoDigest => r.manifests[r.tags[t]] # AbsentManifest}

StructureIdle ==
    /\ fsys = <<>>
    /\ env = <<>>
    /\ fault = "none"
    /\ tarStreams = <<>>
    /\ conds = <<>>
    /\ idx = 1
    /\ errs = <<>>
    /\ results = <<>>
    /\ panic = <<>>
    /\ io = NoIO

\* a new resource, or one that an earlier apply has saved, over a
\* repository that others may have written since
InitTag ==
    /\ StructureIdle
    /\ registry \in Registries
    /\ data \in TagData
    /\ state \in {NullState} \cup
                 (IF (data.Tag = "") # (data.Tags = <<>>) THEN {Applied(data)} ELSE {})
    /\ errg = <<>>
    /\ resp = NoResp
    /\ ports = <<>>

NextTag ==
    \/ TagResourceRead
    \/ TagResourceCreate
    \/ \E i \in 1..MaxTags : DoTagTask(i)
    \/ TagResourceCreateReturn

SpecTag == InitTag /\ [][NextTag]_vars

----------------------------------------------------------------------------

(* TagsResource *)

\* the id: the SHA256 of the JSON of the map, whose keys json.Marshal sorts
TagsId(want) == <<"sha256", want>>

\* the loop of doTags, which moves no tag that is already set
RECURSIVE DoTagsRangeKeepsSetTags(_, _, _)
DoTagsRangeKeepsSetTags(reg, want, order) ==
    IF order = <<>> THEN [reg |-> reg, err |-> <<>>]
    ELSE LET tag == Head(order)
             got == RemoteGetDigest(reg, want[tag])
         IN IF got.err # <<>>
            THEN [reg |-> reg, err |-> <<"error getting digest", want[tag]>>]
            ELSE IF RemoteTagDenied(reg, tag)
            THEN [reg |-> reg, err |-> <<"error tagging", want[tag], tag>>]
            ELSE DoTagsRangeKeepsSetTags(
                     IF reg.tags[tag] = NoDigest
                     THEN RemoteTag(reg, tag, got.Digest) ELSE reg,
                     want, Tail(order))

\* the loop of doTags over the map, in the order the map is ranged over;
\* it stops at the first error, with the tags written so far
RECURSIVE DoTagsRange(_, _, _)
DoTagsRange(reg, want, order) ==
    IF order = <<>> THEN [reg |-> reg, err |-> <<>>]
    ELSE LET tag == Head(order)
             got == RemoteGetDigest(reg, want[tag])
         IN IF got.err # <<>>
            THEN [reg |-> reg, err |-> <<"error getting digest", want[tag]>>]
            ELSE IF RemoteTagDenied(reg, tag)
            THEN [reg |-> reg, err |-> <<"error tagging", want[tag], tag>>]
            ELSE DoTagsRange(RemoteTag(reg, tag, got.Digest), want, Tail(order))

\* the loop of checkTags
RECURSIVE CheckTagsRange(_, _, _)
CheckTagsRange(reg, want, order) ==
    IF order = <<>> THEN <<>>
    ELSE LET tag == Head(order)
             got == RemoteGetTag(reg, tag)
         IN IF got.err # <<>> THEN <<"error getting tag", tag>>
            ELSE IF got.Digest # want[tag]
            THEN <<"tag does not point to digest", tag, want[tag], got.Digest>>
            ELSE CheckTagsRange(reg, want, Tail(order))

\* Create and Update
TagsResourceCreate ==
    /\ data.kind = "oci_tags"
    /\ \E order \in Orders(DOMAIN data.Tags) :
          LET out == DoTagsRange(registry, data.Tags, order)
          IN /\ registry' = out.reg
             /\ IF out.err # <<>>
                THEN /\ resp' = [op |-> "Create", Diagnostics |-> <<TagError(out.err)>>]
                     /\ state' = state
                ELSE /\ resp' = [op |-> "Create", Diagnostics |-> <<>>]
                     /\ state' = [Id |-> TagsId(data.Tags)]
    /\ UNCHANGED <<data, errg, ports>>
    /\ UNCHANGED structureVars

NullTagsState == [Id |-> <<>>]

TagsResourceRead ==
    /\ data.kind = "oci_tags"
    /\ state # NullTagsState
    /\ \E order \in Orders(DOMAIN data.Tags) :
          state' = [Id |-> IF CheckTagsRange(registry, data.Tags, order) # <<>>
                           THEN EmptyString ELSE TagsId(data.Tags)]
    /\ resp' = [op |-> "Read", Diagnostics |-> <<>>]
    /\ UNCHANGED <<registry, data, errg, ports>>
    /\ UNCHANGED structureVars

TagsData ==
    [kind : {"oci_tags"}, Repo : {Repo}, Tags : MapsOver(TagNames, Digests)]

InitTags ==
    /\ StructureIdle
    /\ registry \in Registries
    /\ data \in TagsData
    /\ state \in {NullTagsState, [Id |-> TagsId(data.Tags)]}
    /\ errg = <<>>
    /\ resp = NoResp
    /\ ports = <<>>

NextTags == TagsResourceCreate \/ TagsResourceRead

SpecTags == InitTags /\ [][NextTags]_vars

----------------------------------------------------------------------------

(* StructureTestDataSource *)

D3 == "sha256:3"

IndexOutOfRange == <<"index out of range [0] with length 0">>

\* the conditions of the condition blocks: one EnvCondition for each env
\* entry and one FilesCondition for each files entry, block after block
RECURSIVE EnvConditionsOf(_)
EnvConditionsOf(es) ==
    IF es = <<>> THEN <<>>
    ELSE <<[kind |-> "env", want |-> (Head(es).Key :> Head(es).Value)]>>
         \o EnvConditionsOf(Tail(es))

RECURSIVE FilesConditionsOf(_)
FilesConditionsOf(fs) ==
    IF fs = <<>> THEN <<>>
    ELSE <<[kind |-> "files",
            want |-> (Head(fs).Path :>
                        [Optional |-> FALSE, Mode |-> <<>>, Regex |-> Head(fs).Regex])]>>
         \o FilesConditionsOf(Tail(fs))

RECURSIVE ConditionsOf(_)
ConditionsOf(blocks) ==
    IF blocks = <<>> THEN <<>>
    ELSE EnvConditionsOf(Head(blocks).Env) \o FilesConditionsOf(Head(blocks).Files)
         \o ConditionsOf(Tail(blocks))

\* conds.Check(img): every condition is checked, the errors are joined
RECURSIVE ConditionsCheck(_, _)
ConditionsCheck(cs, img) ==
    IF cs = <<>> THEN Nil
    ELSE LET c == Head(cs)
             order == <<CHOOSE k \in DOMAIN c.want : TRUE>>
             err == IF c.kind = "env"
                    THEN EnvConditionCheck(c.want, order, img.env, img.fault)
                    ELSE FilesConditionCheck(c.want, order, img.fsys, img.fault)
         IN err \o ConditionsCheck(Tail(cs), img)

NoImage == ""

\* the switch on the media type of Read: the image chosen, or the
\* diagnostic, or the panic of indexing an empty list of manifests
SelectImage(reg, desc) ==
    IF desc.MediaType = "image"
    THEN [img |-> desc.Digest, diag |-> <<>>, panic |-> <<>>, returned |-> FALSE]
    ELSE IF Len(desc.Manifests) = 0
    THEN [img |-> NoImage,
          diag |-> <<"Unable to read image from index manifest", "index is empty">>,
          panic |-> IndexOutOfRange, returned |-> FALSE]
    ELSE LET got == RemoteGetDigest(reg, desc.Manifests[1])
         IN IF got.err # <<>>
            THEN [img |-> NoImage, diag |-> <<"Unable to load image">> \o got.err,
                  panic |-> <<>>, returned |-> TRUE]
            ELSE [img |-> got.Digest, diag |-> <<>>, panic |-> <<>>, returned |-> FALSE]

NullTestState == [Id |-> <<>>, TestedRef |-> <<>>]

\* Read of the data source; a panic ends the process before Read returns
StructureTestDataSourceRead ==
    /\ data.kind = "oci_structure_test"
    /\ panic = <<>>
    /\ LET digest == DigestStr(data.Digest)
           got == RemoteGetDigest(registry, digest)
           cs == ConditionsOf(data.Conditions)
           desc == [got.desc EXCEPT !.Digest = digest]
           sel == SelectImage(registry, desc)
           err == ConditionsCheck(cs, registry.manifests[sel.img])
       IN IF got.err # <<>>
          THEN /\ resp' = [op |-> "Read", Diagnostics |-> <<<<"Unable to fetch image">> \o got.err>>,
                           img |-> NoImage, checked |-> FALSE]
               /\ UNCHANGED <<state, panic>>
          ELSE IF sel.panic # <<>>
          THEN /\ resp' = [op |-> "Read", Diagnostics |-> <<sel.diag>>,
                           img |-> NoImage, checked |-> FALSE]
               /\ panic' = sel.panic
               /\ state' = state
          ELSE IF sel.returned
          THEN /\ resp' = [op |-> "Read", Diagnostics |-> <<sel.diag>>,
                           img |-> NoImage, checked |-> FALSE]
               /\ UNCHANGED <<state, panic>>
          ELSE IF err # Nil
          THEN /\ resp' = [op |-> "Read",
                           Diagnostics |-> <<<<"Image does not match rules">> \o err>>,
                           img |-> sel.img, checked |-> TRUE]
               /\ UNCHANGED <<state, panic>>
          ELSE /\ resp' = [op |-> "Read", Diagnostics |-> <<>>,
                           img |-> sel.img, checked |-> TRUE]
               /\ state' = [Id |-> data.Digest, TestedRef |-> data.Digest]
               /\ panic' = panic
    /\ UNCHANGED <<registry, data, errg, ports>>
    /\ UNCHANGED <<fsys, env, fault, tarStreams, conds, idx, errs, results, io>>

\* images that differ in their config env and in the file /a
ImageOf(digest, cfgEnv, fs) ==
    [MediaType |-> "image", Manifests |-> <<>>, Digest |-> digest,
     env |-> cfgEnv, fsys |-> fs, fault |-> "none"]

IndexOf(digest, ms) ==
    [MediaType |-> "index", Manifests |-> ms, Digest |-> digest,
     env |-> <<>>, fsys |-> <<>>, fault |-> "none"]

AbsentOf(digest) ==
    [MediaType |-> "absent", Manifests |-> <<>>, Digest |-> digest,
     env |-> <<>>, fsys |-> <<>>, fault |-> "none"]

\* the bound on the number of manifests of an index
MaxManifests == 2

\* the bound on the number of condition blocks
MaxBlocks == 2

TestEnvs == {<<>>, << <<"FOO", "=", "x">> >>}
TestTrees == {NoFiles, [NoFiles EXCEPT ![<<"a">>] = PlainFile]}

ChildManifests(digest) ==
    {AbsentOf(digest)} \cup {ImageOf(digest, e, fs) : e \in TestEnvs, fs \in TestTrees}

TestRegistries ==
    {[tags |-> [t \in TagNames |-> NoDigest], deny |-> {},
      manifests |-> (D1 :> top) @@ (D2 :> second) @@ (D3 :> third)] :
        top \in {AbsentOf(D1)} \cup {ImageOf(D1, e, NoFiles) : e \in TestEnvs}
                  \cup {IndexOf(D1, ms) : ms \in SeqsUpTo({D2, D3}, MaxManifests)},
        second \in ChildManifests(D2),
        third \in {ImageOf(D3, <<>>, NoFiles), ImageOf(D3, << <<"FOO", "=", "x">> >>, NoFiles)}}

TestBlocks ==
    {[Env |-> << [Key |-> FOO, Value |-> <<"x">>] >>, Files |-> <<>>],
     [Env |-> <<>>, Files |-> << [Path |-> PathA, Regex |-> "bar"] >>]}

InitStructureTest ==
    /\ StructureIdle
    /\ registry \in TestRegistries
    /\ data \in [kind : {"oci_structure_test"}, Digest : {DigestRefOf(D1)},
                 Conditions : SeqsUpTo(TestBlocks, MaxBlocks) \ {<<>>}]
    /\ state = NullTestState
    /\ errg = <<>>
    /\ resp = [op |-> "", Diagnostics |-> <<>>, img |-> NoImage, checked |-> FALSE]
    /\ ports = <<>>

NextStructureTest == StructureTestDataSourceRead

SpecStructureTest == InitStructureTest /\ [][NextStructureTest]_vars

----------------------------------------------------------------------------

(* ExecTestDataSource: freePort and discardPort *)

\* the bounds on the ports the host hands out and on the exec tests that
\* run at once
MaxPorts == 2
MaxExecTests == 3

Ports == 1..MaxPorts
ExecTests == 1..MaxExecTests

NoPort == 0

\* freePort, under mu: the host picks a port nobody listens on, for each
\* listener the loop opens and keeps open until it returns, and the first
\* port that is not marked in freePorts is returned; the map is left as it is
FreePortOutcomes(p) ==
    {[port |-> n, freePorts |-> p.freePorts] :
        n \in (Ports \ p.listening) \ p.freePorts}

\* Read up to the start of the script: the port is taken, or Read returns
\* with the "Unable to find free port" diagnostic
ExecTestFreePort(t) ==
    /\ ports # <<>>
    /\ ports.pc[t] = "idle"
    /\ IF FreePortOutcomes(ports) = {}
       THEN ports' = [ports EXCEPT !.pc[t] = "failed"]
       ELSE \E out \in FreePortOutcomes(ports) :
               ports' = [ports EXCEPT !.pc[t] = "script", !.fp[t] = out.port,
                                      !.freePorts = out.freePorts]
    /\ UNCHANGED <<registry, data, state, errg, resp>>
    /\ UNCHANGED structureVars

\* the script of the test starts to listen on its FREE_PORT
ExecTestListen(t) ==
    /\ ports # <<>>
    /\ ports.pc[t] = "script"
    /\ ports.fp[t] \notin ports.listening
    /\ ports' = [ports EXCEPT !.listening = @ \cup {ports.fp[t]}, !.server[t] = TRUE]
    /\ UNCHANGED <<registry, data, state, errg, resp>>
    /\ UNCHANGED structureVars

\* the script has ended and the deferred discardPort runs
ExecTestDiscardPort(t) ==
    /\ ports # <<>>
    /\ ports.pc[t] = "script"
    /\ ports' = [ports EXCEPT !.pc[t] = "idle", !.fp[t] = NoPort,
                              !.freePorts = @ \ {ports.fp[t]},
                              !.listening = IF ports.server[t]
                                            THEN @ \ {ports.fp[t]} ELSE @,
                              !.server[t] = FALSE]
    /\ UNCHANGED <<registry, data, state, errg, resp>>
    /\ UNCHANGED structureVars

InitPorts ==
    /\ StructureIdle
    /\ registry = <<>>
    /\ data = <<>>
    /\ state = <<>>
    /\ errg = <<>>
    /\ resp = <<>>
    /\ ports = [freePorts |-> {}, listening |-> {},
                pc |-> [t \in ExecTests |-> "idle"],
                fp |-> [t \in ExecTests |-> NoPort],
                server |-> [t \in ExecTests |-> FALSE]]

NextPorts ==
    \E t \in ExecTests :
        \/ ExecTestFreePort(t)
        \/ ExecTestListen(t)
        \/ ExecTestDiscardPort(t)

SpecPorts == InitPorts /\ [][NextPorts]_vars

----------------------------------------------------------------------------

(* Properties *)

Runs == DOMAIN results

\* the messages of an error that are about one path or one env name
MsgsFor(err, subject) ==
    SelectSeq(err, LAMBDA m : m[1] # "fatal" /\ m[2] = subject)

Kinds(err) == {err[n][1] : n \in DOMAIN err}

RECURSIVE SumLen(_)
SumLen(es) == IF es = <<>> THEN 0 ELSE Len(Head(es)) + SumLen(Tail(es))

\* what one Check of the condition at position n can return
CheckOutcomes(n) ==
    IF conds[n].kind = "env"
    THEN {EnvConditionCheck(conds[n].want, o, env, fault) :
             o \in Orders(DOMAIN conds[n].want)}
    ELSE {FilesConditionCheck(conds[n].want, o, fsys, fault) :
             o \in Orders(DOMAIN conds[n].want)}

\* C1: Conditions.Check evaluates every condition of the list, also after an
\* earlier one has failed; it returns nil iff every condition returned nil,
\* and the combined error holds every message of every failed condition.
C1_AllConditionsJoined ==
    \A r \in Runs :
        /\ Len(results[r].errs) = Len(conds)
        /\ \A n \in 1..Len(conds) : results[r].errs[n] \in CheckOutcomes(n)
        /\ (results[r].err = Nil) <=> (\A n \in 1..Len(conds) : results[r].errs[n] = Nil)
        /\ Len(results[r].err) = SumLen(results[r].errs)
        /\ \A n \in 1..Len(conds) : Range(results[r].errs[n]) \subseteq Range(results[r].err)

\* two conditions of one list have failed and both messages are reported
C1_Witness ==
    /\ Len(results) >= 1
    /\ Len(conds) = 2
    /\ conds[1].kind = "env"
    /\ conds[2].kind = "files"
    /\ results[1].errs[1] # Nil
    /\ results[1].errs[2] # Nil
    /\ EnvMismatch(FOO, <<"x">>, <<>>) \in Range(results[1].err)
    /\ FileNotFound(PathA) \in Range(results[1].err)

\* the one FilesCondition / EnvCondition of SpecFiles / SpecEnv
Want == conds[1].want

Entry(path) == fsys[Tail(path)]

Absent(path) == Entry(path).kind = "absent"
Opened(path) == Entry(path).kind = "file"

\* C2: a wanted path that is absent from the image and not optional gets
\* exactly one violation, "file not found", and no other violation.
C2_AbsentNotFoundOnce ==
    \A r \in Runs : \A path \in DOMAIN Want :
        (Absent(path) /\ ~Want[path].Optional)
            => MsgsFor(results[r].err, path) = <<FileNotFound(path)>>

C2_Witness ==
    /\ Len(results) >= 1
    /\ DOMAIN Want = Paths
    /\ Absent(PathA) /\ ~Want[PathA].Optional
    /\ Want[PathA].Regex = "bar" /\ Want[PathA].Mode = <<M0644>>
    /\ Opened(PathB)
    /\ results[1].err = <<FileNotFound(PathA)>>

\* C3: a wanted path that is absent from the image and optional gets no
\* violation, whatever its regex and mode.
C3_AbsentOptionalSilent ==
    \A r \in Runs : \A path \in DOMAIN Want :
        (Absent(path) /\ Want[path].Optional)
            => MsgsFor(results[r].err, path) = <<>>

C3_Witness ==
    /\ Len(results) >= 1
    /\ Absent(PathA) /\ Want[PathA].Optional
    /\ Want[PathA].Regex = "bar" /\ Want[PathA].Mode = <<M0644>>
    /\ MsgsFor(results[1].err, PathA) = <<>>

\* C4: two Checks in a row of the same conditions against the same image
\* report the same set of violations.
C4_SecondRunSameSet ==
    Len(results) >= 2 => Range(results[1].err) = Range(results[2].err)

\* the two runs ranged over a map in different orders
C4_Witness ==
    /\ Len(results) >= 2
    /\ Len(results[1].err) >= 2
    /\ results[1].err # results[2].err
    /\ Range(results[1].err) = Range(results[2].err)

TarNames(tr) == {<<"/">> \o tr[n].name : n \in DOMAIN tr}

\* C5: FilesCondition.Check leaves every entry of its Want map as it was
\* before the call, so a path found in one image is still reported "not
\* found" by a later Check against an image that lacks it.
C5_CheckLeavesWant ==
    /\ \A path \in DOMAIN Want : Want[path].ran = FALSE
    /\ fault = "none" =>
          \A r \in Runs : \A path \in DOMAIN Want :
              path \notin TarNames(tarStreams[r])
                  => FileNotFound(path) \in Range(results[r].err)

HasKind(err, kind) == kind \in Kinds(err)

Content(path) ==
    [size |-> Entry(path).size, nul |-> Entry(path).nul, text |-> Entry(path).text]

\* the permission, setuid, setgid and sticky bits of the file are those wanted
SameBits(path) ==
    \A b \in permissionMask : (b \in Entry(path).mode) <=> (b \in Want[path].Mode[1])

ModeAsWanted(path) == Want[path].Mode = <<>> \/ SameBits(path)

NulInWindow(path) == Entry(path).nul \in 0..(binaryWindow - 1)

Passes(r, path) == MsgsFor(results[r].err, path) = <<>>

\* C6 as stated: a file passes exactly when its masked mode equals the masked
\* wanted mode and the regex, if any, matches its content.
C6_PassesIffModeAndRegexMatch ==
    \A r \in Runs : \A path \in DOMAIN Want :
        Opened(path) =>
            (Passes(r, path) <=>
                /\ ModeAsWanted(path)
                /\ Want[path].Regex = "" \/ Match(Want[path].Regex, Content(path)))

\* C6 as amended: a file passes exactly when its masked mode equals the masked
\* wanted mode (if a mode is wanted) and, if a regex is wanted, the file is at
\* most 1 MiB, has no null byte among its first 8192 bytes and the regex
\* matches its content; a 0644 text file passes mode 0644 with a matching
\* regex and gets "mode does not match" from mode 0755.
C6_PassesIffModeAndReadableMatch ==
    \A r \in Runs : \A path \in DOMAIN Want :
        Opened(path) =>
            /\ Passes(r, path) <=>
                  /\ ModeAsWanted(path)
                  /\ \/ Want[path].Regex = ""
                     \/ /\ Entry(path).size <= maxRegexFileSize
                        /\ ~NulInWindow(path)
                        /\ Match(Want[path].Regex, Content(path))
            /\ (Entry(path).mode = M0644 /\ Want[path].Mode = <<M0755>> /\ Want[path].Regex = "")
                  => MsgsFor(results[r].err, path)
                        = <<FileModeMismatch(path, M0755, M0644)>>

C6_Witness ==
    /\ Len(results) >= 1
    /\ PathA \in DOMAIN Want
    /\ Entry(PathA) = PlainFile
    /\ Want[PathA].Mode = <<M0644>>
    /\ Want[PathA].Regex = "bar"
    /\ Passes(1, PathA)

\* C7: with a regex, a file of exactly 1 MiB is not rejected for its size but
\* read and matched (".*" passes on text), and a larger file gets the "too
\* large" violation and nothing else, whatever its content.
C7_SizeCeiling ==
    \A r \in Runs : \A path \in DOMAIN Want :
        (Opened(path) /\ Want[path].Regex # "") =>
            /\ Entry(path).size = maxRegexFileSize =>
                  /\ ~HasKind(MsgsFor(results[r].err, path), "file too large to match regex")
                  /\ ~NulInWindow(path) =>
                        (HasKind(MsgsFor(results[r].err, path), "file does not match regexp")
                            <=> ~Match(Want[path].Regex, Content(path)))
                  /\ (~NulInWindow(path) /\ Want[path].Regex = ".*" /\ ModeAsWanted(path))
                        => Passes(r, path)
            /\ Entry(path).size > maxRegexFileSize =>
                  MsgsFor(results[r].err, path) = <<FileTooLarge(path)>>

C7_Witness ==
    /\ Len(results) >= 1
    /\ PathA \in DOMAIN Want
    /\ Opened(PathA)
    /\ Entry(PathA).size = maxRegexFileSize
    /\ Entry(PathA).nul = binaryWindow
    /\ Want[PathA].Regex = ".*"
    /\ Passes(1, PathA)

\* C8: with a regex and a file within the size ceiling, "contains binary
\* data" is recorded, and the regex not run, exactly when a null byte is among
\* the first 8192 bytes; a null byte at offset 8192 or later leaves the regex
\* to decide.
C8_BinaryWindow ==
    \A r \in Runs : \A path \in DOMAIN Want :
        (Opened(path) /\ Want[path].Regex # "" /\ Entry(path).size <= maxRegexFileSize) =>
            LET msgs == MsgsFor(results[r].err, path)
            IN /\ HasKind(msgs, "file contains binary data") <=> NulInWindow(path)
               /\ NulInWindow(path) => msgs = <<FileBinary(path)>>
               /\ ~NulInWindow(path) =>
                     (HasKind(msgs, "file does not match regexp")
                         <=> ~Match(Want[path].Regex, Content(path)))

C8_Witness ==
    /\ Len(results) >= 1
    /\ PathA \in DOMAIN Want
    /\ Opened(PathA)
    /\ Entry(PathA).nul = binaryWindow
    /\ Entry(PathA).text = "foo"
    /\ Want[PathA].Regex = "bar"
    /\ HasKind(MsgsFor(results[1].err, PathA), "file does not match regexp")
    /\ ~HasKind(MsgsFor(results[1].err, PathA), "file contains binary data")

\* the entries of the image's env list that set this name
Occurrences(k) ==
    {n \in DOMAIN env : env[n] = k \/ HasPrefix(env[n], k \o <<"=">>)}

ValueAt(n, k) == IF env[n] = k THEN <<>> ELSE SubSeq(env[n], Len(k) + 2, Len(env[n]))

Last(S) == CHOOSE n \in S : \A m \in S : m <= n

\* the value of the name in the image config, "" when it is not set
Actual(k) == IF Occurrences(k) = {} THEN <<>> ELSE ValueAt(Last(Occurrences(k)), k)

Mismatches(err, k) ==
    SelectSeq(err, LAMBDA m : m[1] = "env does not match" /\ m[2] = k)

\* C9: EnvCondition.Check records one "does not match" violation, with the
\* wanted and the actual value, for every wanted name whose value in the
\* image differs (an unset name counts as ""), and none for a name whose
\* value is the wanted one; it does not stop at the first mismatch.
C9_EveryMismatchRecorded ==
    \A r \in Runs : \A k \in DOMAIN Want :
        Mismatches(results[r].err, k) =
            IF Actual(k) # Want[k]
            THEN <<EnvMismatch(k, Want[k], Actual(k))>>
            ELSE <<>>

C9_Witness ==
    /\ Len(results) >= 1
    /\ DOMAIN Want = {FOO, PATH}
    /\ Occurrences(PATH) = {}
    /\ Occurrences(FOO) # {}
    /\ Mismatches(results[1].err, FOO) # <<>>
    /\ Mismatches(results[1].err, PATH) = <<EnvMismatch(PATH, <<"/", "x">>, <<>>)>>

\* C10: when the env list holds a name more than once, the value compared is
\* that of the last occurrence, and an entry without "=" is the name with
\* the empty value.
C10_LastOccurrenceWins ==
    \A r \in Runs : \A k \in DOMAIN Want :
        Occurrences(k) # {} =>
            LET last == env[Last(Occurrences(k))]
                got == IF "=" \in Range(last) THEN ValueAt(Last(Occurrences(k)), k) ELSE <<>>
            IN /\ (Mismatches(results[r].err, k) = <<>>) <=> (Want[k] = got)
               /\ \A n \in DOMAIN Mismatches(results[r].err, k) :
                     Mismatches(results[r].err, k)[n][4] = got

C10_Witness ==
    /\ Len(results) >= 1
    /\ env = << <<"FOO", "=", "x">>, <<"FOO">> >>
    /\ FOO \in DOMAIN Want
    /\ Want[FOO] = <<>>
    /\ Mismatches(results[1].err, FOO) = <<>>

AuditMsgs(err, k) ==
    SelectSeq(err, LAMBDA m : m[1] = "env references relative path or literal $" /\ m[2] = k)

Separator(k) == IF k \in {<<"LUA_PATH">>, <<"LUA_CPATH">>} THEN ";" ELSE ":"

\* a component of a value starts after position 0 or after a separator and
\* runs up to the next separator or the end of the value
Starts(v, sep) == {0} \cup {i \in DOMAIN v : v[i] = sep}

ComponentAfter(v, sep, b) ==
    LET ends == {i \in DOMAIN v : i > b /\ v[i] = sep} \cup {Len(v) + 1}
        e == CHOOSE i \in ends : \A j \in ends : i <= j
    IN SubSeq(v, b + 1, e - 1)

Relative(k, p) == p = <<>> \/ p[1] # "/" \/ p = <<"$">> \o k

BadStarts(k, v) ==
    {b \in Starts(v, Separator(k)) : Relative(k, ComponentAfter(v, Separator(k), b))}

\* C11: for a wanted pair whose name is in the PATH-like table, the wanted
\* value is split by that name's separator (";" for LUA_PATH and LUA_CPATH,
\* ":" otherwise) and exactly one "references relative path or literal $"
\* violation is recorded for every component that does not start with "/" or
\* is "$<name>"; a value of absolute components records none.
C11_AuditPerComponent ==
    \A r \in Runs : \A k \in DOMAIN Want \cap DOMAIN verifyEnv :
        LET a == AuditMsgs(results[r].err, k)
            v == Want[k]
            comp(b) == ComponentAfter(v, Separator(k), b)
        IN /\ Len(a) = Cardinality(BadStarts(k, v))
           /\ \A n \in DOMAIN a :
                 \E b \in BadStarts(k, v) : a[n] = EnvPathViolation(k, v, comp(b))
           /\ \A b \in BadStarts(k, v) :
                 \E n \in DOMAIN a : a[n] = EnvPathViolation(k, v, comp(b))

C11_Witness ==
    /\ Len(results) >= 1
    /\ DOMAIN Want = {PATH, LUA_PATH}
    /\ Want[PATH] = <<"/", "x", ":", "/", "y">>
    /\ Want[LUA_PATH] = <<"y", ";", "/", "x">>
    /\ AuditMsgs(results[1].err, PATH) = <<>>
    /\ AuditMsgs(results[1].err, LUA_PATH) =
          <<EnvPathViolation(LUA_PATH, Want[LUA_PATH], <<"y">>)>>

\* C12: the audit of a wanted pair does not depend on the comparison of its
\* value: a name of the table whose wanted value has a relative component
\* gets its audit violations both when the image's value is the wanted one
\* and when it is not (then next to the mismatch violation), and a name
\* outside the table gets none.
C12_AuditIndependentOfComparison ==
    \A r \in Runs : \A k \in DOMAIN Want :
        /\ k \notin DOMAIN verifyEnv => AuditMsgs(results[r].err, k) = <<>>
        /\ k \in DOMAIN verifyEnv =>
              ((AuditMsgs(results[r].err, k) # <<>>) <=> (BadStarts(k, Want[k]) # {}))
        /\ (Mismatches(results[r].err, k) # <<>>) <=> (Actual(k) # Want[k])

C12_Witness ==
    /\ Len(results) >= 1
    /\ DOMAIN Want = {FOO, PATH, LUA_PATH}
    /\ Want[PATH] = <<"$", "PATH">>
    /\ Actual(PATH) = Want[PATH]
    /\ AuditMsgs(results[1].err, PATH) # <<>>
    /\ Want[LUA_PATH] = <<"y", ";", "/", "x">>
    /\ Actual(LUA_PATH) # Want[LUA_PATH]
    /\ Mismatches(results[1].err, LUA_PATH) # <<>>
    /\ AuditMsgs(results[1].err, LUA_PATH) # <<>>
    /\ Want[FOO] = <<"/", "x", ":", "y">>
    /\ AuditMsgs(results[1].err, FOO) = <<>>

BlockedMsgs(err, name) ==
    SelectSeq(err, LAMBDA m : m[1] = "file mode matches blocked permission" /\ m[2] = name)

\* the entries of the subtree of the view rooted at a wanted path
Subtree(path) ==
    LET root == Tail(path)
    IN {n \in DOMAIN fsys : Present(fsys, root) /\ Present(fsys, n) /\ Under(root, n)}

Absolute(name) == <<"/">> \o name

\* p is covered by the override prefix o
Covers(p, o) == p = o \/ HasPrefix(p, o \o <<"/">>)

CoveredBySome(p, overrides) == \E i \in DOMAIN overrides : Covers(p, overrides[i])

\* C14: PermissionsCondition.Check records one "mode matches blocked
\* permission" violation for an entry of a walked subtree when the entry is
\* not a symlink, its masked mode is the masked blocked mode and no
\* override prefix covers its path, and none otherwise.
C14_BlockedUnlessOverridden ==
    \A r \in Runs : \A path \in DOMAIN Want : \A n \in Subtree(path) :
        LET perm == Want[path]
            blocked == /\ ~IsSymlink(fsys[n])
                       /\ fsys[n].mode \cap permissionMask = perm.Block \cap permissionMask
                       /\ ~CoveredBySome(Absolute(n), perm.Override)
        IN Len(BlockedMsgs(results[r].err, n)) = IF blocked THEN 1 ELSE 0

C14_Witness ==
    /\ Len(results) >= 1
    /\ DOMAIN Want = {PathD}
    /\ Want[PathD] = [Block |-> M0777, Override |-> <<PathE, PathDb>>]
    /\ fsys[<<"d", "/", "b">>] = Directory(M0755)
    /\ fsys[<<"d", "/", "b", "/", "c">>] = RegularFile(M0777)
    /\ fsys[<<"d", "/", "b", "e">>] = RegularFile(M0777)
    /\ BlockedMsgs(results[1].err, <<"d", "/", "b", "/", "c">>) = <<>>
    /\ Len(BlockedMsgs(results[1].err, <<"d", "/", "b", "e">>)) = 1

\* C15: hasOverride reports a path p as covered by an override prefix o
\* (both absolute, o also "/" or with a trailing "/") exactly when p = o or
\* p starts with o followed by "/", and by a list exactly when one of its
\* prefixes covers p; a prefix that ends inside a path segment does not cover.
C15_OverrideOnSegmentBoundary ==
    \A path \in DOMAIN Want : \A n \in TreeNames \cup {<<>>} :
        LET overrides == Want[path].Override
        IN /\ \A i \in DOMAIN overrides :
                 hasOverride(n, <<overrides[i]>>) <=> Covers(Absolute(n), overrides[i])
           /\ hasOverride(n, overrides) <=> CoveredBySome(Absolute(n), overrides)

C15_Witness ==
    /\ Len(results) >= 1
    /\ DOMAIN Want = {PathD}
    /\ Want[PathD] = [Block |-> M0777, Override |-> <<PathDb>>]
    /\ fsys[<<"d", "/", "b">>] = RegularFile(M0777)
    /\ fsys[<<"d", "/", "b", "e">>] = RegularFile(M0777)
    /\ BlockedMsgs(results[1].err, <<"d", "/", "b">>) = <<>>
    /\ Len(BlockedMsgs(results[1].err, <<"d", "/", "b", "e">>)) = 1

\* the violations whose subject is a wanted path or its name in the view
MsgsAbout(err, path) ==
    SelectSeq(err, LAMBDA m : m[2] = path \/ m[2] = Tail(path))

\* C16: a DirsCondition path that is not recursive is checked by itself: a
\* directory records one violation when its masked mode differs from the
\* wanted one and none when it is equal; a path that is not a directory, or
\* whose stat fails, records one violation; and in each case Check returns
\* normally, having gone on to the other wanted paths.
C16_NonRecursiveDirChecked ==
    /\ panic = <<>>
    /\ \A r \in Runs : \A path \in DOMAIN Want :
          ~Want[path].Recursive =>
              LET msgs == MsgsAbout(results[r].err, path)
                  fi == fsys[Tail(path)]
                  same == fi.mode \cap permissionMask = Want[path].Mode \cap permissionMask
              IN IF Present(fsys, Tail(path)) /\ IsDir(fi) /\ same
                 THEN msgs = <<>>
                 ELSE Len(msgs) = 1

ModeMsgs(err, name) ==
    SelectSeq(err, LAMBDA m : m[1] = "file mode does not match" /\ m[2] = name)

RecursivePaths == {path \in DOMAIN Want : Want[path].Recursive}

\* C17: a recursive DirsCondition path records one "mode does not match"
\* violation for every entry of the subtree rooted at the path, the root
\* included, that is not a symlink, is not a directory when filesOnly is
\* set, and whose masked mode differs from the masked wanted mode, and
\* none for any other entry.
C17_RecursiveChecksSubtree ==
    \A r \in Runs :
        /\ \A path \in RecursivePaths : \A n \in Subtree(path) :
              LET dir == Want[path]
                  checked == ~IsSymlink(fsys[n]) /\ ~(dir.FilesOnly /\ IsDir(fsys[n]))
                  differs == fsys[n].mode \cap permissionMask # dir.Mode \cap permissionMask
              IN Len(ModeMsgs(results[r].err, n)) = IF checked /\ differs THEN 1 ELSE 0
        /\ \A n \in DOMAIN fsys :
              (\A path \in RecursivePaths : n \notin Subtree(path)) =>
                  ModeMsgs(results[r].err, n) = <<>>

C17_Witness ==
    /\ Len(results) >= 1
    /\ DOMAIN Want = {PathD}
    /\ Want[PathD] = [FilesOnly |-> TRUE, Mode |-> M0755, Recursive |-> TRUE]
    /\ fsys[<<"d">>] = Directory(M0777)
    /\ fsys[<<"d", "/", "b">>] = Symlink
    /\ fsys[<<"d", "/", "b", "e">>] = RegularFile(M0777)
    /\ ModeMsgs(results[1].err, <<"d">>) = <<>>
    /\ ModeMsgs(results[1].err, <<"d", "/", "b">>) = <<>>
    /\ Len(ModeMsgs(results[1].err, <<"d", "/", "b", "e">>)) = 1

\* the wanted paths of the condition whose subtree is walked
WalkedPaths ==
    IF conds[1].kind = "permissions"
    THEN DOMAIN Want
    ELSE IF conds[1].kind = "dirs" THEN RecursivePaths ELSE {}

\* the entry is one the walk of the wanted path reports
Reported(path, n) ==
    LET masked == fsys[n].mode \cap permissionMask
    IN /\ ~IsSymlink(fsys[n])
       /\ IF conds[1].kind = "permissions"
          THEN /\ masked = Want[path].Block \cap permissionMask
               /\ ~CoveredBySome(Absolute(n), Want[path].Override)
          ELSE /\ ~(Want[path].FilesOnly /\ IsDir(fsys[n]))
               /\ masked # Want[path].Mode \cap permissionMask

\* C18: when the walk of a wanted path of a recursive DirsCondition or of a
\* PermissionsCondition fails because its root does not exist, the error is
\* recorded as the one violation of that path, and Check still returns the
\* violations of the other walked paths, whichever path was walked first.
C18_WalkErrorRecorded ==
    \A r \in Runs : \A path \in WalkedPaths :
        ~Present(fsys, Tail(path)) =>
            /\ MsgsAbout(results[r].err, path) = <<NotExist(Tail(path))>>
            /\ \A q \in WalkedPaths \ {path} : \A n \in Subtree(q) :
                  Reported(q, n) =>
                      Len(SelectSeq(results[r].err, LAMBDA m : m[2] = n)) = 1

C18_Witness ==
    /\ Len(results) >= 1
    /\ conds[1].kind = "dirs"
    /\ WalkedPaths = {PathD, PathE}
    /\ fsys[<<"d">>] = Directory(M0777)
    /\ Want[PathD].Mode = M0755
    /\ ~Want[PathD].FilesOnly
    /\ ~Present(fsys, <<"e">>)
    /\ Len(results[1].err) >= 2
    /\ results[1].err[1] = NotExist(<<"e">>)
    /\ Len(ModeMsgs(results[1].err, <<"d">>)) = 1

RwxBits == 0..8

\* two modes with the same rwx, setuid, setgid and sticky bits
Agree(got, want) ==
    \A b \in RwxBits \cup {ModeSetuid, ModeSetgid, ModeSticky} : b \in got <=> b \in want

TypeBits == {ModeDir, ModeSymlink}

\* C13: every mode comparison of the file, directory and permission
\* conditions depends on the rwx, setuid, setgid and sticky bits only: the
\* modes compare equal when they agree on these bits, whatever their
\* file-type bits, and different when they differ in one of them.
C13_ComparisonsMasked ==
    \A r \in Runs : \A path \in DOMAIN Want :
        LET err == results[r].err
            name == Tail(path)
        IN IF conds[1].kind = "files"
           THEN (Present(fsys, name) /\ Want[path].Mode # <<>>) =>
                    ((MsgsAbout(err, path) = <<>>) <=> Agree(fsys[name].mode, Want[path].Mode[1]))
           ELSE IF conds[1].kind = "dirs"
           THEN IF Want[path].Recursive
                THEN \A n \in Subtree(path) :
                        (~IsSymlink(fsys[n]) /\ ~(Want[path].FilesOnly /\ IsDir(fsys[n]))) =>
                            ((ModeMsgs(err, n) = <<>>) <=> Agree(fsys[n].mode, Want[path].Mode))
                ELSE (Present(fsys, name) /\ IsDir(fsys[name])) =>
                        ((MsgsAbout(err, path) = <<>>) <=> Agree(fsys[name].mode, Want[path].Mode))
           ELSE \A n \in Subtree(path) :
                   (~IsSymlink(fsys[n]) /\ ~CoveredBySome(Absolute(n), Want[path].Override)) =>
                       ((BlockedMsgs(err, n) # <<>>) <=> Agree(fsys[n].mode, Want[path].Block))

\* a directory passes a wanted mode without type bits, and a setuid file
\* fails the same mode
C13_Witness ==
    /\ Len(results) >= 1
    /\ conds[1].kind = "dirs"
    /\ DOMAIN Want = {PathD}
    /\ Want[PathD] = [FilesOnly |-> FALSE, Mode |-> M0755, Recursive |-> TRUE]
    /\ fsys[<<"d">>] = Directory(M0755)
    /\ fsys[<<"d", "/", "b">>] = Directory(M0755)
    /\ fsys[<<"d", "/", "b", "/", "c">>] = AbsentEntry
    /\ fsys[<<"d", "/", "b", "e">>] = RegularFile(M4755)
    /\ TypeBits \cap fsys[<<"d">>].mode # TypeBits \cap Want[PathD].Mode
    /\ results[1].err = <<FileModeMismatch(<<"d", "/", "b", "e">>, M0755, M4755)>>

\* C20: a wanted file that opens and whose spec sets a mode has its masked
\* mode compared with the masked wanted mode, and "mode does not match"
\* recorded exactly on a difference, also when the regex stage recorded
\* "too large" or "binary data" for the file.
C20_ModeComparedAfterRegexStage ==
    \A r \in Runs : \A path \in DOMAIN Want :
        (Opened(path) /\ Want[path].Mode # <<>>) =>
            (HasKind(MsgsFor(results[r].err, path), "file mode does not match")
                <=> ~SameBits(path))

\* the image has two layers: the first holds /a as a regular file, the
\* second a whiteout of /a and /a as a directory
FileThenDirectory ==
    /\ Len(tarStreams) = 2
    /\ \E n \in DOMAIN tarStreams[1] :
          /\ tarStreams[1][n].name = <<"a">>
          /\ tarStreams[1][n].entry.kind = "file"
    /\ \E n \in DOMAIN tarStreams[2] : tarStreams[2][n].name = <<".wh.", "a">>
    /\ \E n \in DOMAIN tarStreams[2] :
          /\ tarStreams[2][n].name = <<"a">>
          /\ tarStreams[2][n].entry.kind = "dir"

\* C19: on an image whose second layer whites out the regular file /a of
\* the first and creates /a as a directory, the view holds the directory as
\* the one entry of /a, a FilesCondition that wants /a fails and a
\* DirsCondition that wants /a with the mode of the directory returns nil.
C19_FileReplacedByDirectory ==
    FileThenDirectory =>
        /\ Entry(PathA).kind = "dir"
        /\ \A r \in Runs :
              IF conds[1].kind = "files"
              THEN ~Want[PathA].Optional => MsgsFor(results[r].err, PathA) # <<>>
              ELSE Agree(Entry(PathA).mode, Want[PathA].Mode) => results[r].err = Nil

FsBacked(n) == conds[n].kind \in {"files", "dirs", "permissions"}

\* C21: when a Check of a files, dirs or permissions condition has
\* returned, every scratch file it created has been removed, whether it
\* returned violations, nil, a copy error or an index error.
C21_ScratchFileRemoved == io.created = io.removed

C21_Witness ==
    /\ fault = "copy"
    /\ io.created = 1
    /\ io.removed = 1
    /\ idx = 2
    /\ FsBacked(1)

\* C22: when a Check of a files, dirs or permissions condition has
\* returned, every layer stream it opened has been closed, also when the
\* creation of the scratch file or the copy failed.
C22_StreamClosed == io.opened = io.closed

\* C23: within one Conditions.Check the layers are materialized at most
\* once, whatever the number of files, dirs and permissions conditions of
\* the list, and not at all for a list of env conditions.
C23_MaterializedOnce ==
    /\ io.opened <= 1
    /\ io.created <= 1
    /\ (\A n \in DOMAIN conds : ~FsBacked(n)) => (io.opened = 0 /\ io.created = 0)

FirstFsBacked == CHOOSE n \in DOMAIN conds : FsBacked(n) /\ \A m \in 1..(n - 1) : ~FsBacked(m)

\* C24: when a stage of the materialization fails, Conditions.Check
\* returns that one error with its stage and nothing else: no violation of
\* any condition, and no condition after the failing one is evaluated.
C24_FatalAborts ==
    \A r \in Runs :
        (fault \in FatalStages /\ \E n \in DOMAIN conds : FsBacked(n)) =>
            /\ results[r].err = <<<<"fatal", fault>>>>
            /\ Len(results[r].errs) = FirstFsBacked

C26_ReadClearsOnDrift ==
    (resp.op = "Read") =>
        LET digest == DigestStr(data.DigestRef)
            tags == RequestedTags(data)
            got(n) == RemoteGetTag(registry, tags[n])
            id == TaggedRefOf(tags[1], digest)
        IN (\A m \in DOMAIN tags : got(m).err = <<>>) =>
              IF \A n \in DOMAIN tags : got(n).Digest = digest
              THEN state.Id = id /\ state.TaggedRef = id
              ELSE state.Id = EmptyString /\ state.TaggedRef = EmptyString

\* C28: when Create has returned without a diagnostic, every tag of the
\* list, duplicates included, resolves to the digest of digest_ref and the
\* saved id is the tagged reference of the first tag of the list, whatever
\* the order in which the tasks finished; and when errg.Wait returns after a
\* task has failed, Create reports an error and saves no id.
C28_DoTagAllOrNothing ==
    /\ [](((resp.op = "Create") /\ (resp.Diagnostics = <<>>)) =>
            LET digest == DigestStr(data.DigestRef)
                tags == RequestedTags(data)
            IN /\ \A n \in DOMAIN tags : registry.tags[tags[n]] = digest
               /\ state.Id = TaggedRefOf(tags[1], digest)
               /\ state.TaggedRef = state.Id)
    /\ [][((errg # <<>>) /\ (errg' = <<>>)
            /\ (\E i \in DOMAIN errg.ret : errg.ret[i] = "err")) =>
               ((resp'.Diagnostics # <<>>) /\ (state' = state))]_vars

\* three tasks, two of them for the same tag, have moved both tags
C28_Witness ==
    /\ resp.op = "Create"
    /\ resp.Diagnostics = <<>>
    /\ data.Tags = <<"foo", "bar", "bar">>
    /\ data.DigestRef = DigestRefOf(D2)
    /\ state.Id = TaggedRefOf("foo", D2)
    /\ registry.tags = [t \in TagNames |-> D2]

\* C27: an apply of oci_tags that succeeds leaves every tag of the map
\* resolving to the digest the map gives it, and every other tag of the
\* repository resolving to what it resolved to before the apply.
C27_TagsAppliedOthersKept ==
    [][((resp'.op = "Create") /\ (resp'.Diagnostics = <<>>)) =>
          /\ \A tag \in DOMAIN data.Tags : registry'.tags[tag] = data.Tags[tag]
          /\ \A tag \in TagNames \ DOMAIN data.Tags :
                registry'.tags[tag] = registry.tags[tag]]_vars

\* foo has been tagged with the second digest, bar is not in the map and
\* still resolves to the first
C27_Witness ==
    /\ data.kind = "oci_tags"
    /\ resp.op = "Create"
    /\ resp.Diagnostics = <<>>
    /\ data.Tags = ("foo" :> D2)
    /\ registry.tags = ("foo" :> D2) @@ ("bar" :> D1)
    /\ state.Id = TagsId(data.Tags)

\* C29: when Read has run on a digest that resolves to an index, then, if the
\* index has no manifest, the "index is empty" diagnostic is reported, no
\* image is chosen, no condition is evaluated and the process has not
\* panicked; and if the index's first manifest is an image of the
\* repository, the conditions are evaluated against that image.
C29_EmptyIndexReported ==
    LET desc == registry.manifests[DigestStr(data.Digest)]
    IN (resp.op = "Read" /\ desc.MediaType = "index") =>
          IF desc.Manifests = <<>>
          THEN /\ panic = <<>>
               /\ \E n \in DOMAIN resp.Diagnostics :
                     resp.Diagnostics[n][2] = "index is empty"
               /\ resp.img = NoImage
               /\ ~resp.checked
          ELSE LET first == registry.manifests[desc.Manifests[1]]
               IN (first.MediaType = "image") =>
                     /\ resp.img = desc.Manifests[1]
                     /\ resp.checked
                     /\ (resp.Diagnostics = <<>>)
                           <=> (ConditionsCheck(ConditionsOf(data.Conditions), first) = Nil)

\* C30: two exec tests that both hold a port, each between its freePort and
\* its discardPort, hold different ports.
C30_PortsExclusive ==
    \A t, u \in ExecTests :
        (t # u /\ ports.pc[t] = "script" /\ ports.pc[u] = "script") =>
            ports.fp[t] # ports.fp[u]

====
